---- MODULE Spec2Model ----
(***************************************************************************)
(* Protocol and security layer of the onvif-relay gateway:                  *)
(*   - WS-Security UsernameToken validation (soap/auth.go)                  *)
(*   - SOAP gateway handlers (onvif/server.go)                              *)
(*   - mediamtx path orchestration (mediamtx/client.go)                     *)
(*   - HTTP Digest transport (pkg/digest, camera/client.go)                 *)
(*   - process start-up (cmd main)                                          *)
(*   - camera health checker (camera/health.go)                             *)
(* Each subsystem has its own specification; the variables of the other     *)
(* subsystems stay at their initial values.                                 *)
(***************************************************************************)
EXTENDS Integers, Sequences, FiniteSets, TLC

VARIABLES
    \* ---- WS-Security validator (soap/auth.go)
    now,          \* wall clock, in minutes
    usedNonces,   \* sync.Map: nonce string -> time of first use
    vpc,          \* per validation goroutine: "idle" or "stored"
    vtok,         \* per validation goroutine: the token being validated
    vres,         \* what the validation call that returned last returned
    accepted,     \* history: per nonce, calls of a good token that returned nil
    replayed,     \* history: per nonce, calls of a good token rejected as replay
    spoiled,      \* history: per nonce, some other call carried it, or it was purged
    nCalls,       \* history: number of validation calls started
    \* ---- SOAP gateway (onvif/server.go)
    gwReq,        \* the last request handled
    gwResp,       \* the response written for it
    gwTrace,      \* what the handler did for it
    \* ---- mediamtx client (mediamtx/client.go)
    relay,        \* external relay: path name -> configuration or NoPath
    mtxCall,      \* the last ConfigurePath call: arguments, requests issued, result
    \* ---- digest transport (pkg/digest)
    challenges,   \* Transport.challenges: url -> challenge
    nc,           \* Transport.nc
    rt,           \* per goroutine: RoundTrip in progress
    nTrips,       \* history: number of RoundTrips started
    \* ---- process start-up (main)
    mainPc,       \* position of main
    cfg,          \* loaded configuration switches
    pathIdx,      \* next stream of configureMediamtxPaths
    configured,   \* path names configured so far, in order
    started,      \* components started so far
    served,       \* requests served by the HTTP server
    \* ---- health checker (camera/health.go)
    health,       \* Camera.health
    failures,     \* HealthChecker.failures
    pingLog,      \* history: outcomes of the most recent pings per camera
    \* ---- coordinate conversion (ptz/coordinate.go)
    cIn,          \* arguments of the conversion: x, y, velocity
    cOut,         \* its results, and those of the reverse conversion
    \* ---- configuration and camera registry (config/validation.go, camera/registry.go)
    config,       \* cfg.Cameras of the loaded configuration
    lookups,      \* history: per token, the profiles GetProfileByToken returned
    nLookups,     \* history: number of GetProfileByToken calls
    \* ---- camera commands, PTZ service (camera/client.go, ptz/service.go)
    nanAsInt,     \* what int() of this build makes of a NaN
    ptzPos,       \* per camera: Camera.ptzPan, Camera.ptzTilt
    call,         \* per goroutine: the PTZ or imaging call in progress
    last,         \* history: the call that returned last
    ptzLog,       \* history: the tracking moves that returned, in that order
    nOps,         \* history: number of calls started
    \* ---- snapshot proxy (snapshot/proxy.go)
    snapCall,     \* the snapshot request being handled
    snapLast,     \* history: the snapshot request answered last
    nSnaps,       \* history: number of snapshot requests
    \* ---- shutdown (main, Server.Start, Server.Shutdown)
    sigPc,        \* position of the signal-handling goroutine
    srvMain,      \* position of the main goroutine
    accepting,    \* the HTTP listener is open
    inflight,     \* requests being served
    graceLeft,    \* what is left of the shutdown context's timeout
    stopped,      \* background tasks that were stopped
    procState,    \* "running", or the exit of the process
    \* ---- WS-Discovery (discovery/uuid.go)
    responder,    \* the Responder's configured values
    probe,        \* history: the last datagram handled
    probeMatch,   \* history: the reply to it
    \* ---- nonce sweep, step by step (soap/auth.go)
    sweep,        \* cleanupNonces: position, time.Now() of the tick, keys visited
    vlast,        \* history: the validation call that returned last
    okTokens,     \* history: the digest tokens that were accepted
    reaccepted,   \* history: the digest tokens that were accepted again
    lastEvict,    \* history: the record the sweep deleted last
    \* ---- waiting for the relay (mediamtx/client.go)
    wr,           \* WaitReady: clock, ticker, position, polls and what it returned
    \* ---- imaging service (imaging/service.go)
    imgLast,      \* history: the SetImagingSettings call that returned last
    imgServed,    \* history: per VideoSourceToken, the cameras its calls went to
    nImg,         \* history: number of SetImagingSettings calls
    \* ---- discovery read loop (discovery/uuid.go)
    buffer,       \* Responder.run: the read buffer
    handlers,     \* the handleProbe goroutines, in the order they were started
    nRecv,        \* history: number of datagrams received
    \* ---- background loops and their stop operations
    task          \* one background loop: position, stop signal, pending tick

authVars == <<now, usedNonces, vpc, vtok, vres, accepted, replayed, spoiled, nCalls>>
gwVars   == <<gwReq, gwResp, gwTrace>>
mtxVars  == <<relay, mtxCall>>
digVars  == <<challenges, nc, rt, nTrips>>
mainVars == <<mainPc, cfg, pathIdx, configured, started, served>>
hcVars   == <<health, failures, pingLog>>
coordVars == <<cIn, cOut>>
regVars == <<config, lookups, nLookups>>
ptzVars == <<nanAsInt, ptzPos, call, last, ptzLog, nOps>>
snapVars == <<snapCall, snapLast, nSnaps>>
shutVars == <<sigPc, srvMain, accepting, inflight, graceLeft, stopped, procState>>
discVars == <<responder, probe, probeMatch>>
sweepVars == <<sweep, vlast, okTokens, reaccepted, lastEvict>>
waitVars == <<wr>>
imgVars == <<imgLast, imgServed, nImg>>
bufVars == <<buffer, handlers, nRecv>>
taskVars == <<task>>
lateVars == <<imgVars, bufVars, taskVars>>
edgeVars == <<snapVars, shutVars, discVars, sweepVars, waitVars, lateVars>>
deviceVars == <<coordVars, regVars, ptzVars, edgeVars>>
vars == <<authVars, gwVars, mtxVars, digVars, mainVars, hcVars, deviceVars>>

Min(a, b) == IF a <= b THEN a ELSE b

(***************************************************************************)
(* WS-Security validator                                                    *)
(***************************************************************************)

\* Bounds of the validator model.
MaxTime == 7
MaxCalls == 3

\* The goroutines that run ValidateUsernameToken concurrently.
Validators == {"v1", "v2"}

\* nonceTTL = 5 * time.Minute, and the +-5 minute window of Created.
nonceTTL == 5
createdWindow == 5

DigestType == "http://docs.oasis-open.org/wss/2004/01/oasis-200401-wss-username-token-profile-1.0#PasswordDigest"

expectedUsername == "admin"
expectedPassword == "secret"

\* base64.StdEncoding.DecodeString on the nonce strings of the model:
\* "bjE=" decodes to "n1", "" to nothing, and "!!" is not base64.
Base64Decode(s) ==
    IF s = "bjE=" THEN [ok |-> TRUE, bytes |-> "n1"]
    ELSE IF s = "" THEN [ok |-> TRUE, bytes |-> ""]
    ELSE [ok |-> FALSE, bytes |-> ""]

NonceStrings == {"bjE=", "!!"}

\* Created values of the model's tokens: one at the start of the run and one
\* just past the TTL, so that both edges of the window are crossed.
CreatedTimes == {0, nonceTTL + 1}

\* A Created element: absent (""), not RFC3339, or a parsed time.
NoCreated  == [present |-> FALSE, parses |-> FALSE, t |-> 0]
BadCreated == [present |-> TRUE,  parses |-> FALSE, t |-> 0]
CreatedAt(t) == [present |-> TRUE, parses |-> TRUE, t |-> t]
CreatedValues == {NoCreated, BadCreated} \cup {CreatedAt(t) : t \in CreatedTimes}

\* A password value: plain text, or Base64(SHA1(nonceBytes + created + password)).
Plain(p) == [alg |-> "plain", nonce |-> "", created |-> NoCreated, pw |-> p]
PasswordDigest(nonceBytes, created, p) ==
    [alg |-> "sha1", nonce |-> nonceBytes, created |-> created, pw |-> p]

MkToken(u, ty, n, c, pv) ==
    [username |-> u, ptype |-> ty, nonce |-> n, created |-> c, password |-> pv]

NoToken == MkToken("", "", "", NoCreated, Plain(""))

\* The tokens of the model: every digest token of the right user, and one or
\* two tokens for each of the other ways a token can be wrong.
Tokens ==
    {MkToken("admin", DigestType, n, c, PasswordDigest(Base64Decode(n).bytes, c, p)) :
        n \in NonceStrings \cup {""}, c \in CreatedValues, p \in {"secret", "wrong"}}
    \cup
    {MkToken("admin", "", "", NoCreated, Plain(p)) : p \in {"secret", "wrong"}}
    \cup
    {MkToken("eve", "", "", NoCreated, Plain("secret")),
     MkToken("eve", DigestType, "bjE=", CreatedAt(0),
             PasswordDigest("n1", CreatedAt(0), "secret")),
     MkToken("admin", "PasswordText", "", NoCreated, Plain("secret"))}

\* Lines 60-86: the checks made before the nonce is looked up.  "" means the
\* call goes on (plain text: accepted; digest: to the nonce check).
PreCheck(tok) ==
    IF tok.username # expectedUsername THEN "invalid credentials"
    ELSE IF tok.ptype = "" THEN
        IF tok.password # Plain(expectedPassword) THEN "invalid credentials" ELSE ""
    ELSE IF tok.ptype = DigestType THEN
        IF tok.nonce = "" \/ ~tok.created.present
        THEN "nonce and created are required for password digest" ELSE ""
    ELSE "unsupported password type"

\* Line 90: usedNonces.LoadOrStore(nonce, time.Now()): the loaded flag ...
NonceLoadedLost(m, n) == FALSE
NonceLoaded(m, n) == n \in DOMAIN m

\* ... and the map after it.
NonceStored(m, n, t) ==
    IF n \in DOMAIN m THEN m ELSE [k \in DOMAIN m \cup {n} |-> IF k = n THEN t ELSE m[k]]

\* Lines 95-104: the Created window, evaluated at time t.
TimestampErrorOnBound(created, t) ==
    IF ~created.parses THEN "invalid created timestamp"
    ELSE IF created.t <= t - createdWindow \/ created.t >= t + createdWindow
         THEN "timestamp out of valid range" ELSE ""
TimestampError(created, t) ==
    IF ~created.parses THEN "invalid created timestamp"
    ELSE IF created.t < t - createdWindow \/ created.t > t + createdWindow
         THEN "timestamp out of valid range" ELSE ""

\* Lines 106-121: the digest comparison.
DigestError(tok) ==
    LET dec == Base64Decode(tok.nonce) IN
    IF ~dec.ok THEN "invalid nonce encoding"
    ELSE IF tok.password # PasswordDigest(dec.bytes, tok.created, expectedPassword)
         THEN "invalid credentials" ELSE ""

\* Lines 95-126: what follows a nonce that was not seen before.
PostCheck(tok, t) ==
    IF TimestampError(tok.created, t) # "" THEN TimestampError(tok.created, t)
    ELSE DigestError(tok)

ReplayError == "nonce already used (replay attack detected)"

\* A good digest token: the kind of token the replay contract speaks of.
GoodDigestToken(tok) ==
    /\ tok.username = expectedUsername
    /\ tok.ptype = DigestType
    /\ tok.nonce # "" /\ tok.created.present
    /\ DigestError(tok) = ""

InWindow(tok, t) == TimestampError(tok.created, t) = ""

Bump(f, n) == [f EXCEPT ![n] = @ + 1]

\* The call reaches the nonce check of line 90.
ReachesNonceCheckAnyUser(tok) == tok.ptype = DigestType /\ tok.nonce # "" /\ tok.created.present
ReachesNonceCheck(tok) == PreCheck(tok) = "" /\ tok.ptype = DigestType

\* History: a call that reached the nonce check ends with result r at time t.
Outcome(tok, r, t) ==
    IF GoodDigestToken(tok) /\ InWindow(tok, t) /\ r = ""
    THEN /\ accepted' = Bump(accepted, tok.nonce)
         /\ UNCHANGED <<replayed, spoiled>>
    ELSE IF GoodDigestToken(tok) /\ InWindow(tok, t) /\ r = ReplayError
    THEN /\ replayed' = Bump(replayed, tok.nonce)
         /\ UNCHANGED <<accepted, spoiled>>
    ELSE /\ spoiled' = [spoiled EXCEPT ![tok.nonce] = TRUE]
         /\ UNCHANGED <<accepted, replayed>>

\* ValidateUsernameToken, lines 59-93: everything up to and including the
\* LoadOrStore, which is the call's only access to shared state.
BeginValidate(p, tok) ==
    /\ vpc[p] = "idle"
    /\ nCalls < MaxCalls
    /\ nCalls' = nCalls + 1
    /\ IF ~ReachesNonceCheck(tok)
       THEN /\ vres' = (IF PreCheck(tok) = "" THEN "ok" ELSE PreCheck(tok))
            /\ UNCHANGED <<usedNonces, vpc, vtok, accepted, replayed, spoiled>>
       ELSE IF NonceLoaded(usedNonces, tok.nonce)
       THEN /\ vres' = ReplayError
            /\ Outcome(tok, ReplayError, now)
            /\ UNCHANGED <<usedNonces, vpc, vtok>>
       ELSE /\ usedNonces' = NonceStored(usedNonces, tok.nonce, now)
            /\ vpc' = [vpc EXCEPT ![p] = "stored"]
            /\ vtok' = [vtok EXCEPT ![p] = tok]
            /\ UNCHANGED <<vres, accepted, replayed, spoiled>>
    /\ UNCHANGED now

\* ValidateUsernameToken, lines 95-126, for the call that stored its nonce;
\* time.Now() of line 101 is read here.
FinishValidate(p) ==
    /\ vpc[p] = "stored"
    /\ LET r == PostCheck(vtok[p], now) IN
        /\ vres' = (IF r = "" THEN "ok" ELSE r)
        /\ Outcome(vtok[p], r, now)
    /\ vpc' = [vpc EXCEPT ![p] = "idle"]
    /\ vtok' = [vtok EXCEPT ![p] = NoToken]
    /\ UNCHANGED <<now, usedNonces, nCalls>>

\* The nonces the sweep of lines 139-146 deletes at time t.
Expired(m, t) == {n \in DOMAIN m : t - m[n] > nonceTTL}

\* cleanupNonces, one tick of the ticker.
SweepNonces ==
    /\ Expired(usedNonces, now) # {}
    /\ usedNonces' = [n \in DOMAIN usedNonces \ Expired(usedNonces, now) |-> usedNonces[n]]
    /\ spoiled' = [n \in NonceStrings |->
                      spoiled[n] \/ n \in Expired(usedNonces, now)]
    /\ UNCHANGED <<now, vpc, vtok, vres, accepted, replayed, nCalls>>

\* Time passes.
Tick ==
    /\ now < MaxTime
    /\ now' = now + 1
    /\ UNCHANGED <<usedNonces, vpc, vtok, vres, accepted, replayed, spoiled, nCalls>>

InitAuthVars ==
    /\ now = 0
    /\ usedNonces = <<>>
    /\ vpc = [p \in Validators |-> "idle"]
    /\ vtok = [p \in Validators |-> NoToken]
    /\ vres = "none"
    /\ accepted = [n \in NonceStrings |-> 0]
    /\ replayed = [n \in NonceStrings |-> 0]
    /\ spoiled = [n \in NonceStrings |-> FALSE]
    /\ nCalls = 0

NextAuth ==
    \/ \E p \in Validators, tok \in Tokens : BeginValidate(p, tok)
    \/ \E p \in Validators : FinishValidate(p)
    \/ SweepNonces
    \/ Tick

(***************************************************************************)
(* SOAP gateway                                                             *)
(***************************************************************************)

\* io.LimitReader(r.Body, 1<<20)
BodyLimit == 1048576

DeviceActions  == {"GetDeviceInformation", "GetSystemDateAndTime", "GetCapabilities"}
MediaActions   == {"GetProfiles", "GetStreamUri", "GetSnapshotUri"}
PTZActions     == {"GetNodes", "GetConfigurations", "ContinuousMove", "Stop",
                   "GotoHomePosition", "GetPresets", "GotoPreset", "AbsoluteMove",
                   "RelativeMove"}
ImagingActions == {"GetImagingSettings", "SetImagingSettings", "GetOptions"}

Endpoints == {"device", "media", "ptz", "imaging", "root"}

\* The actions a handler's switch knows.
ServiceActions(svc) ==
    IF svc = "device" THEN DeviceActions
    ELSE IF svc = "media" THEN MediaActions
    ELSE IF svc = "ptz" THEN PTZActions
    ELSE ImagingActions

\* A switch that sends the media actions to the device service.
RouteOfDeviceFirst(action) ==
    IF action \in DeviceActions \cup MediaActions THEN "device"
    ELSE IF action \in PTZActions THEN "ptz"
    ELSE IF action \in ImagingActions THEN "imaging"
    ELSE ""

\* handleRootService, lines 511-527: the service an action is routed to, "" for
\* the default arm.
RouteOf(action) ==
    IF action \in DeviceActions THEN "device"
    ELSE IF action \in MediaActions THEN "media"
    ELSE IF action \in PTZActions THEN "ptz"
    ELSE IF action \in ImagingActions THEN "imaging"
    ELSE ""

\* The actions whose case decodes a request element before calling the service.
DecodingActions ==
    {"GetCapabilities", "GetStreamUri", "GetSnapshotUri", "ContinuousMove", "Stop",
     "GotoHomePosition", "GetPresets", "GotoPreset", "AbsoluteMove", "RelativeMove",
     "GetImagingSettings", "SetImagingSettings", "GetOptions"}

\* The actions whose service operation returns an error value.
FailingActions ==
    {"GetStreamUri", "GetSnapshotUri", "ContinuousMove", "Stop", "GotoHomePosition",
     "GotoPreset", "AbsoluteMove", "RelativeMove", "SetImagingSettings"}

\* Faults of soap/fault.go.
NewFault(code, subcode, reason) ==
    [status |-> 500, code |-> code, subcode |-> subcode, reason |-> reason]
NewNotAuthorizedFault ==
    NewFault("s:Sender", "ter:NotAuthorized",
        <<"The action requested requires authorization and the sender is not authorized", "">>)
NewInvalidArgsFault(message) == NewFault("s:Sender", "ter:InvalidArgVal", message)
NewActionFailedFault(message) == NewFault("s:Receiver", "ter:Action/Failure", message)

\* sendResponse: 200 with the envelope of a service response.
OkResponse(op) == [status |-> 200, code |-> "", subcode |-> "", reason |-> <<"response", op>>]
\* http.Error(w, "Method not allowed", 405)
MethodNotAllowed == [status |-> 405, code |-> "", subcode |-> "", reason |-> <<"Method not allowed", "">>]

\* The fault a handler sends when validateAuth returned err (lines 119-123,
\* 176-180, 252-256, 411-415 and the routeTo* twins).
AuthFailureFaultLeaky(err) == NewActionFailedFault(<<err, "">>)
AuthFailureFault(err) == NewNotAuthorizedFault

\* A request body is described by its length and by where, in it, the start tag
\* of the first element inside Body ends (actionEnd, 0: there is none) and where
\* the Envelope element ends (envEnd, 0: it never does).
MkBody(len, actionEnd, envEnd) == [len |-> len, actionEnd |-> actionEnd, envEnd |-> envEnd]

\* io.ReadAll(io.LimitReader(r.Body, 1<<20)): the number of bytes handed on.
ReadLen(len) == Min(len, BodyLimit)

\* soap.GetAction on the first n bytes: it needs the tokens up to the first
\* start tag inside Body.
GetActionOK(body, n) == body.actionEnd > 0 /\ body.actionEnd <= n

\* xml.Unmarshal of the envelope on the first n bytes: it needs the whole
\* Envelope element, and ignores what follows it.
UnmarshalOK(body, n) == body.envEnd > 0 /\ body.envEnd <= n

NoSecurity == [present |-> FALSE, tok |-> NoToken]
WithSecurity(tok) == [present |-> TRUE, tok |-> tok]

\* ValidateUsernameToken run to its end in one piece: the error ("" for nil)
\* and the nonce map it leaves.
ValidateUsernameToken(tok, m, t) ==
    IF ~ReachesNonceCheck(tok) THEN [err |-> PreCheck(tok), nonces |-> m]
    ELSE IF NonceLoaded(m, tok.nonce) THEN [err |-> ReplayError, nonces |-> m]
    ELSE [err |-> PostCheck(tok, t), nonces |-> NonceStored(m, tok.nonce, t)]

\* Server.validateAuth, lines 810-825.
validateAuth(req, n, m, t) ==
    IF ~UnmarshalOK(req.body, n)
    THEN [err |-> "failed to parse SOAP envelope", nonces |-> m]
    ELSE IF ~req.security.present
    THEN [err |-> "missing security header", nonces |-> m]
    ELSE ValidateUsernameToken(req.security.tok, m, t)

\* Whether the handler authenticates the action: every handler does, except
\* the device handler (and routeToDeviceService) for GetSystemDateAndTime.
AuthExemptAll(svc, action) == TRUE
AuthExempt(svc, action) == svc = "device" /\ action = "GetSystemDateAndTime"

\* The switch of a service handler, after authentication.
Dispatch(svc, req) ==
    IF req.action \notin ServiceActions(svc)
    THEN [resp |-> NewActionFailedFault(<<"Unknown action: ", req.action>>), op |-> ""]
    ELSE IF req.action \in DecodingActions /\ ~req.decodeOK
    THEN [resp |-> NewInvalidArgsFault(<<"Invalid request", "">>), op |-> ""]
    ELSE IF req.action \in FailingActions /\ ~req.opOK
    THEN [resp |-> IF svc = "media" THEN NewInvalidArgsFault(<<"service error", req.action>>)
                   ELSE NewActionFailedFault(<<"service error", req.action>>),
          op |-> req.action]
    ELSE [resp |-> OkResponse(req.action), op |-> req.action]

NoTrace == [read |-> 0, parsed |-> FALSE, authRun |-> FALSE, authErr |-> "", op |-> ""]

\* A service handler from the authentication step on (handleDeviceService
\* lines 117-149 and its twins; routeTo*Service for the root handler).
ServiceHandler(svc, req, n, m, t) ==
    LET auth == IF AuthExempt(svc, req.action) THEN [err |-> "", nonces |-> m]
                ELSE validateAuth(req, n, m, t)
        out  == Dispatch(svc, req)
        tr   == [read |-> n, parsed |-> TRUE,
                 authRun |-> ~AuthExempt(svc, req.action), authErr |-> auth.err, op |-> ""]
    IN  IF auth.err # ""
        THEN [resp |-> AuthFailureFault(auth.err), trace |-> tr, nonces |-> auth.nonces]
        ELSE [resp |-> out.resp, trace |-> [tr EXCEPT !.op = out.op], nonces |-> auth.nonces]

\* handleDeviceService, handleMediaService, handlePTZService,
\* handleImagingService and handleRootService, from the method check on.
Handler(req, m, t) ==
    LET n == ReadLen(req.body.len) IN
    IF req.method # "POST"
    THEN [resp |-> MethodNotAllowed, trace |-> NoTrace, nonces |-> m]
    ELSE IF req.readErr
    THEN [resp |-> NewActionFailedFault(<<"Failed to read request body", "">>),
          trace |-> NoTrace, nonces |-> m]
    ELSE IF ~GetActionOK(req.body, n)
    THEN [resp |-> NewActionFailedFault(<<"Failed to parse SOAP action", "">>),
          trace |-> [NoTrace EXCEPT !.read = n], nonces |-> m]
    ELSE IF req.endpoint # "root"
    THEN ServiceHandler(req.endpoint, req, n, m, t)
    ELSE IF RouteOf(req.action) # ""
    THEN ServiceHandler(RouteOf(req.action), req, n, m, t)
    ELSE [resp |-> NewActionFailedFault(<<"Unknown action: ", req.action>>),
          trace |-> [NoTrace EXCEPT !.read = n, !.parsed = TRUE], nonces |-> m]

\* The request bodies of the model: a small envelope; an envelope that never
\* closes; an envelope of exactly the limit; a small envelope followed by
\* padding past the limit; an envelope that closes past the limit; and a body
\* whose Body element starts past the limit.
Bodies ==
    {MkBody(400, 200, 400),
     MkBody(300, 200, 0),
     MkBody(BodyLimit, 200, BodyLimit),
     MkBody(BodyLimit + 1, 200, 400),
     MkBody(BodyLimit + 100, 200, BodyLimit + 100),
     MkBody(BodyLimit + 100, BodyLimit + 50, BodyLimit + 100)}

\* The Security headers of the model: none, and one token per way of being
\* right or wrong.
GwSecurities ==
    {NoSecurity} \cup
    {WithSecurity(tok) : tok \in
        {MkToken("admin", "", "", NoCreated, Plain("secret")),
         MkToken("admin", "", "", NoCreated, Plain("wrong")),
         MkToken("eve", "", "", NoCreated, Plain("secret")),
         MkToken("admin", DigestType, "bjE=", CreatedAt(0), PasswordDigest("n1", CreatedAt(0), "secret")),
         MkToken("admin", DigestType, "bjE=", CreatedAt(0), PasswordDigest("n1", CreatedAt(0), "wrong")),
         MkToken("admin", DigestType, "bjE=", CreatedAt(nonceTTL + 1),
                 PasswordDigest("n1", CreatedAt(nonceTTL + 1), "secret")),
         MkToken("admin", DigestType, "", CreatedAt(0), PasswordDigest("", CreatedAt(0), "secret")),
         MkToken("admin", "PasswordText", "", NoCreated, Plain("secret"))}}

GwActions ==
    {"GetSystemDateAndTime", "GetDeviceInformation", "GetProfiles", "ContinuousMove",
     "SetImagingSettings", "Reboot"}

MkRequest(ep, method, readErr, body, action, sec, decodeOK, opOK) ==
    [endpoint |-> ep, method |-> method, readErr |-> readErr, body |-> body,
     action |-> action, security |-> sec, decodeOK |-> decodeOK, opOK |-> opOK]

NoRequest == MkRequest("", "", FALSE, MkBody(0, 0, 0), "", NoSecurity, FALSE, FALSE)

GoodPlain == WithSecurity(MkToken("admin", "", "", NoCreated, Plain("secret")))

\* The requests of the model: every endpoint, action and Security header with
\* a small body; every endpoint, action and body without a header and with a
\* good one; and a few requests that are no POST, cannot be read, do not
\* decode, or whose operation fails.
Requests ==
    {MkRequest(ep, "POST", FALSE, MkBody(400, 200, 400), a, sec, TRUE, TRUE) :
        ep \in Endpoints, a \in GwActions, sec \in GwSecurities}
    \cup
    {MkRequest(ep, "POST", FALSE, b, a, sec, TRUE, TRUE) :
        ep \in Endpoints, b \in Bodies, a \in GwActions, sec \in {NoSecurity, GoodPlain}}
    \cup
    {MkRequest(ep, m, re, MkBody(400, 200, 400), "ContinuousMove", GoodPlain, d, o) :
        ep \in {"ptz", "root"}, m \in {"POST", "GET"}, re \in BOOLEAN,
        d \in BOOLEAN, o \in BOOLEAN}

\* One request, handled from its first line to its response.
HandleRequest(req) ==
    \E out \in {Handler(req, usedNonces, now)} :
    /\ gwReq' = req
    /\ gwResp' = out.resp
    /\ gwTrace' = out.trace
    /\ usedNonces' = out.nonces
    /\ UNCHANGED <<now, vpc, vtok, vres, accepted, replayed, spoiled, nCalls>>

InitGwVars ==
    /\ gwReq = NoRequest
    /\ gwResp = [status |-> 0, code |-> "", subcode |-> "", reason |-> <<"", "">>]
    /\ gwTrace = NoTrace

NextGateway == \E req \in Requests : HandleRequest(req)

(***************************************************************************)
(* mediamtx client                                                          *)
(***************************************************************************)

PathNames == {"cam1/video0", "cam1/video1", "cam2/video0"}
PathConfigs == {"runOnDemand: ffmpeg", "source: rtsp"}
NoPath == "absent"

\* What the relay answers to one HTTP request: a transport error, or a status
\* and a body that is either a JSON object with an "error" member or not JSON.
MkReply(transportErr, status, json, msg) ==
    [transportErr |-> transportErr, status |-> status, json |-> json, msg |-> msg]

OkReply == MkReply(FALSE, 200, FALSE, "")
ExistsReply == MkReply(FALSE, 400, TRUE, "path already exists")

AddReplies ==
    {OkReply, ExistsReply,
     MkReply(FALSE, 400, TRUE, "invalid path name"),
     MkReply(FALSE, 409, TRUE, "path already exists"),
     MkReply(FALSE, 400, FALSE, "path already exists"),
     MkReply(FALSE, 500, TRUE, ""),
     MkReply(TRUE, 0, FALSE, "")}

DeleteReplies ==
    {OkReply,
     MkReply(FALSE, 404, TRUE, "path not found"),
     MkReply(FALSE, 500, FALSE, ""),
     MkReply(TRUE, 0, FALSE, "")}

\* Go error values: nil, *apiError, or an error made by fmt.Errorf; wrap is the
\* text ConfigurePath puts in front with %w.
MkErr(kind, status, msg, wrap) == [kind |-> kind, status |-> status, msg |-> msg, wrap |-> wrap]
NoErr == MkErr("nil", 0, "", "")
Wrap(prefix, err) == [err EXCEPT !.wrap = prefix]

\* Client.addPath, lines 109-124: the error it returns for a reply.
addPath(reply) ==
    IF reply.transportErr THEN MkErr("errorf", 0, "failed to add path", "")
    ELSE IF reply.status # 200
    THEN IF reply.json /\ reply.msg # ""
         THEN MkErr("apiError", reply.status, reply.msg, "")
         ELSE MkErr("errorf", reply.status, "unexpected status code", "")
    ELSE NoErr

deletePathIgnored(reply) == NoErr
\* Client.deletePath, lines 136-147.
deletePath(reply) ==
    IF reply.transportErr THEN MkErr("errorf", 0, "failed to delete path", "")
    ELSE IF reply.status # 200
    THEN MkErr("errorf", reply.status, "unexpected status code", "")
    ELSE NoErr

\* isPathExistsError, lines 161-167.
isPathExistsErrorAny400(err) == err.kind = "apiError" /\ err.status = 400
isPathExistsErrorNever(err) == FALSE
isPathExistsError(err) ==
    err.kind = "apiError" /\ err.status = 400 /\ err.msg = "path already exists"

\* The relay after a request it answered with reply: a 200 to an add stores the
\* configuration, a 200 to a delete removes the path, anything else leaves it.
AfterAdd(rl, name, pc, reply) ==
    IF ~reply.transportErr /\ reply.status = 200 THEN [rl EXCEPT ![name] = pc] ELSE rl
AfterDelete(rl, name, reply) ==
    IF ~reply.transportErr /\ reply.status = 200 THEN [rl EXCEPT ![name] = NoPath] ELSE rl

Issued(op, reply) == [op |-> op, reply |-> reply]

\* Client.ConfigurePath, lines 70-92, against relay state rl, when the relay
\* answers the first add with r1, the delete with r2 and the second add with
\* r3: the requests issued, the error returned and the relay afterwards.
ConfigurePath(rl, name, pc, r1, r2, r3) ==
    IF addPath(r1) = NoErr
    THEN [calls |-> <<Issued("add", r1)>>, err |-> NoErr, relay |-> AfterAdd(rl, name, pc, r1)]
    ELSE IF isPathExistsError(addPath(r1))
    THEN IF deletePath(r2) # NoErr
         THEN [calls |-> <<Issued("add", r1), Issued("delete", r2)>>,
               err |-> Wrap("failed to delete existing path", deletePath(r2)),
               relay |-> AfterDelete(rl, name, r2)]
         ELSE [calls |-> <<Issued("add", r1), Issued("delete", r2), Issued("add", r3)>>,
               err |-> IF addPath(r3) # NoErr
                       THEN Wrap("failed to recreate path", addPath(r3)) ELSE NoErr,
               relay |-> AfterAdd(AfterDelete(rl, name, r2), name, pc, r3)]
    ELSE [calls |-> <<Issued("add", r1)>>, err |-> addPath(r1), relay |-> rl]

\* One call of ConfigurePath, with whatever the relay answers.
ConfigurePathCall(name, pc, r1, r2, r3) ==
    \E out \in {ConfigurePath(relay, name, pc, r1, r2, r3)} :
        /\ mtxCall' = [name |-> name, cfg |-> pc, before |-> relay,
                       calls |-> out.calls, err |-> out.err]
        /\ relay' = out.relay

NoCall == [name |-> "", cfg |-> "", before |-> <<>>, calls |-> <<>>, err |-> NoErr]

InitMtxVars ==
    /\ relay \in {rl \in [PathNames -> {NoPath, "source: rtsp"}] : rl["cam1/video1"] = NoPath}
    /\ mtxCall = NoCall

NextMtx ==
    \E name \in {"cam1/video0", "cam2/video0"}, pc \in PathConfigs,
       r1 \in AddReplies, r2 \in DeleteReplies, r3 \in AddReplies :
        ConfigurePathCall(name, pc, r1, r2, r3)

(***************************************************************************)
(* Digest transport and camera client                                       *)
(***************************************************************************)

\* Bound: the RoundTrips of one run.
MaxTrips == 3

\* The goroutines that use one camera's transport concurrently.
Trippers == {"g1", "g2"}

CameraURL == "http://cam1:80/cgi-bin/cmd.cgi?port=socket"
CameraRequestURI == "/cgi-bin/cmd.cgi?port=socket"

\* A WWW-Authenticate header value: absent, or a scheme with its parameters.
MkWWWAuth(scheme, realm, nonce, qop) ==
    [scheme |-> scheme, realm |-> realm, nonce |-> nonce, qop |-> qop]
NoWWWAuth == MkWWWAuth("", "", "", "")

WWWAuthValues ==
    {NoWWWAuth, MkWWWAuth("Basic", "atomcam", "", "")}
    \cup {MkWWWAuth("Digest", "atomcam", n, q) : n \in {"s1", "s2"}, q \in {"", "auth"}}

\* What the camera answers to one upstream request.
MkCamReply(transportErr, status, wwwAuth) ==
    [transportErr |-> transportErr, status |-> status, wwwAuth |-> wwwAuth]

CamReplies ==
    {MkCamReply(TRUE, 0, NoWWWAuth), MkCamReply(FALSE, 200, NoWWWAuth),
     MkCamReply(FALSE, 500, NoWWWAuth)}
    \cup {MkCamReply(FALSE, 401, h) : h \in WWWAuthValues}

\* crypto/rand values for cnonce.
Cnonces == {"c1", "c2"}

\* parseChallenge, lines 205-239: nil for anything but a Digest challenge.
parseChallengeOK(h) == h.scheme = "Digest"
parseChallenge(h, t) ==
    [Realm |-> h.realm, Nonce |-> h.nonce, Opaque |-> "", Algorithm |-> "MD5",
     Qop |-> h.qop, timestamp |-> t]

\* An Authorization header: absent, or the Digest credentials.
NoAuthorization ==
    [present |-> FALSE, username |-> "", realm |-> "", nonce |-> "", uri |-> "",
     response |-> <<>>, qop |-> "", nc |-> 0, cnonce |-> ""]

AddUint32Lost(n) == n
\* atomic.AddUint32(&t.nc, 1).  The counter starts at 0 and a run makes at most
\* MaxTrips additions, so the wrap at 2^32 is out of reach and is not modelled.
AddUint32(n) == n + 1

\* Transport.buildAuthorization, lines 242-285, for a POST to the camera URL
\* with user "user" and password "pass": the header, given the counter value
\* it obtained and the cnonce it drew.
buildAuthorization(chal, ncValue, cnonce) ==
    LET ha1 == <<"MD5", "user", chal.Realm, "pass">>
        ha2 == <<"MD5", "POST", CameraRequestURI>>
    IN  IF chal.Qop = ""
        THEN [present |-> TRUE, username |-> "user", realm |-> chal.Realm,
              nonce |-> chal.Nonce, uri |-> CameraRequestURI,
              response |-> <<"MD5", ha1, chal.Nonce, ha2>>,
              qop |-> "", nc |-> 0, cnonce |-> ""]
        ELSE [present |-> TRUE, username |-> "user", realm |-> chal.Realm,
              nonce |-> chal.Nonce, uri |-> CameraRequestURI,
              response |-> <<"MD5", ha1, chal.Nonce, ncValue, cnonce, chal.Qop, ha2>>,
              qop |-> chal.Qop, nc |-> ncValue, cnonce |-> cnonce]

\* The body of the caller's request, and what is left to read in a single-use
\* Body once an attempt has sent and closed it.
RequestBody == "exec"
Consumed == ""

\* cloneRequest, lines 295-307: the body the clone carries.  With GetBody the
\* clone gets a new reader of the bytes; without it the shallow copy shares
\* the caller's Body, of which stream is what is left.
cloneRequest(getBody, stream) == IF getBody THEN RequestBody ELSE stream

\* An upstream request as the camera sees it.
Upstream(authorization, body) == [authorization |-> authorization, body |-> body]

\* What RoundTrip returns: a response, an error, or both.
MkResult(hasResp, status, err) == [hasResp |-> hasResp, status |-> status, err |-> err]
NoResult == MkResult(FALSE, 0, "")

IdleTrip ==
    [pc |-> "idle", getBody |-> FALSE, sent |-> <<>>, replies |-> <<>>,
     result |-> NoResult, cmdErr |-> ""]

\* Client.SendCommand, lines 88-100: the error it returns for what the
\* transport returned ("" for nil).
SendCommandErrorNone(result) == ""
SendCommandError(result) ==
    IF result.err # "" THEN "failed to send command"
    ELSE IF result.status # 200 THEN "unexpected status code"
    ELSE ""

Done(g, reply, result) ==
    rt' = [rt EXCEPT ![g] = [pc |-> "done", getBody |-> rt[g].getBody, sent |-> rt[g].sent,
                             replies |-> Append(rt[g].replies, reply),
                             result |-> result, cmdErr |-> SendCommandError(result)]]

\* RoundTrip, lines 159-164: the first attempt, a clone of the caller's request.
StartRoundTripCached(g) ==
    /\ rt[g].pc = "idle"
    /\ nTrips < MaxTrips
    /\ nTrips' = nTrips + 1
    /\ \E getBody \in BOOLEAN :
         rt' = [rt EXCEPT ![g] = [IdleTrip EXCEPT !.pc = "first", !.getBody = getBody,
                 !.sent = <<Upstream(IF CameraURL \in DOMAIN challenges
                                     THEN buildAuthorization(challenges[CameraURL], nc, "c1")
                                     ELSE NoAuthorization,
                                     cloneRequest(getBody, RequestBody))>>]]
    /\ UNCHANGED <<challenges, nc>>
StartRoundTrip(g) ==
    /\ rt[g].pc = "idle"
    /\ nTrips < MaxTrips
    /\ nTrips' = nTrips + 1
    /\ \E getBody \in BOOLEAN :
         rt' = [rt EXCEPT ![g] = [IdleTrip EXCEPT !.pc = "first", !.getBody = getBody,
                    !.sent = <<Upstream(NoAuthorization,
                                        cloneRequest(getBody, RequestBody))>>]]
    /\ UNCHANGED <<challenges, nc>>

\* Whether RoundTrip goes on to a further attempt after the reply to the
\* first one (lines 165-187).
RetriesAlways(reply) == ~reply.transportErr /\ reply.status = 401
Retries(reply) ==
    /\ ~reply.transportErr
    /\ reply.status = 401
    /\ reply.wwwAuth # NoWWWAuth
    /\ parseChallengeOK(reply.wwwAuth)

\* RoundTrip, lines 165-201: the reply to the first attempt arrives.
FirstReply(g, reply, cnonce) ==
    /\ rt[g].pc = "first"
    /\ IF reply.transportErr
       THEN Done(g, reply, MkResult(FALSE, 0, "transport error")) /\ UNCHANGED <<challenges, nc>>
       ELSE IF reply.status # 401
       THEN Done(g, reply, MkResult(TRUE, reply.status, "")) /\ UNCHANGED <<challenges, nc>>
       ELSE IF ~Retries(reply)
       THEN /\ Done(g, reply,
                    IF reply.wwwAuth = NoWWWAuth
                    THEN MkResult(FALSE, 0, "401 response without WWW-Authenticate header")
                    ELSE MkResult(TRUE, 401, "failed to parse WWW-Authenticate"))
            /\ UNCHANGED <<challenges, nc>>
       ELSE \E chal \in {parseChallenge(reply.wwwAuth, now)} :
            /\ challenges' = [u \in DOMAIN challenges \cup {CameraURL} |->
                                 IF u = CameraURL THEN chal ELSE challenges[u]]
            /\ nc' = IF chal.Qop = "" THEN nc ELSE AddUint32(nc)
            /\ rt' = [rt EXCEPT ![g].pc = "second",
                                ![g].replies = Append(@, reply),
                                ![g].sent = Append(@, Upstream(
                                    buildAuthorization(chal, AddUint32(nc), cnonce),
                                    cloneRequest(rt[g].getBody, Consumed)))]
    /\ UNCHANGED nTrips

\* RoundTrip, line 201: whatever answers the retry is returned.
SecondReplyRetries(g, reply) ==
    /\ rt[g].pc = "second"
    /\ IF Retries(reply)
       THEN rt' = [rt EXCEPT ![g].replies = Append(@, reply),
                             ![g].sent = Append(@, rt[g].sent[2])]
       ELSE Done(g, reply,
                 IF reply.transportErr THEN MkResult(FALSE, 0, "transport error")
                 ELSE MkResult(TRUE, reply.status, ""))
    /\ UNCHANGED <<challenges, nc, nTrips>>
SecondReply(g, reply) ==
    /\ rt[g].pc = "second"
    /\ Done(g, reply,
            IF reply.transportErr THEN MkResult(FALSE, 0, "transport error")
            ELSE MkResult(TRUE, reply.status, ""))
    /\ UNCHANGED <<challenges, nc, nTrips>>

\* The caller has its result; the goroutine is free for another command.
Return(g) ==
    /\ rt[g].pc = "done"
    /\ rt' = [rt EXCEPT ![g] = IdleTrip]
    /\ UNCHANGED <<challenges, nc, nTrips>>

InitDigVars ==
    /\ challenges = <<>>
    /\ nc = 0
    /\ rt = [g \in Trippers |-> IdleTrip]
    /\ nTrips = 0

NextDigest ==
    \/ \E g \in Trippers : StartRoundTrip(g)
    \/ \E g \in Trippers, reply \in CamReplies, cnonce \in Cnonces : FirstReply(g, reply, cnonce)
    \/ \E g \in Trippers, reply \in CamReplies : SecondReply(g, reply)
    \/ \E g \in Trippers : Return(g)

(***************************************************************************)
(* Process start-up                                                         *)
(***************************************************************************)

\* Bound: the requests the HTTP server serves in one run.
MaxServed == 2

\* cfg.Cameras of the model: two cameras, three streams.
Cameras ==
    <<[Name |-> "cam1", Streams |-> <<"video0", "video1">>],
      [Name |-> "cam2", Streams |-> <<"video0">>]>>

\* fmt.Sprintf("%s/%s", cam.Name, stream.Path), line 136.
PathNameOf(ci, si) ==
    IF ci = 1 THEN (IF si = 1 THEN "cam1/video0" ELSE "cam1/video1") ELSE "cam2/video0"

\* The loops of configureMediamtxPaths, lines 134-135: the position after
\* stream si of camera ci, <<0, 0>> when there is none left.
NextStream(ci, si) ==
    IF si < Len(Cameras[ci].Streams) THEN <<ci, si + 1>>
    ELSE IF ci < Len(Cameras) THEN <<ci + 1, 1>>
    ELSE <<0, 0>>

\* main, lines 50-67: where main goes after the registry is created.
AfterRegistrySkipsRelay(c) == "startHealth"
AfterRegistry(c) == IF c.api THEN "waitReady" ELSE "startHealth"

\* main, lines 55-58: WaitReady returns.
WaitReadyReturns(ok) ==
    /\ mainPc = "waitReady"
    /\ IF ok
       THEN mainPc' = "configure" /\ started' = Append(started, "relay ready")
       ELSE mainPc' = "fatal: mediamtx not ready" /\ UNCHANGED started
    /\ UNCHANGED <<cfg, pathIdx, configured, served, relay, mtxCall>>

\* configureMediamtxPaths, lines 134-156: one iteration, a whole ConfigurePath
\* call; main, lines 61-63, when it returns an error.
ConfigureNextPath(r1, r2, r3) ==
    /\ mainPc = "configure"
    /\ \E out \in {ConfigurePath(relay, PathNameOf(pathIdx[1], pathIdx[2]),
                                 "runOnDemand: ffmpeg", r1, r2, r3)} :
        /\ relay' = out.relay
        /\ mtxCall' = [name |-> PathNameOf(pathIdx[1], pathIdx[2]),
                       cfg |-> "runOnDemand: ffmpeg", before |-> relay,
                       calls |-> out.calls, err |-> out.err]
        /\ IF out.err # NoErr
           THEN /\ mainPc' = "fatal: failed to configure mediamtx paths"
                /\ UNCHANGED <<pathIdx, configured>>
           ELSE /\ configured' = Append(configured, PathNameOf(pathIdx[1], pathIdx[2]))
                /\ pathIdx' = NextStream(pathIdx[1], pathIdx[2])
                /\ mainPc' = IF NextStream(pathIdx[1], pathIdx[2]) = <<0, 0>>
                             THEN "startHealth" ELSE "configure"
    /\ UNCHANGED <<cfg, started, served>>

\* main, lines 69-72.
StartHealthChecker ==
    /\ mainPc = "startHealth"
    /\ started' = Append(started, "health checker")
    /\ mainPc' = "startDiscovery"
    /\ UNCHANGED <<cfg, pathIdx, configured, served, relay, mtxCall>>

\* main, lines 74-86: the responder is started when enabled; its socket may
\* fail to open.
StartDiscovery(ok) ==
    /\ mainPc = "startDiscovery"
    /\ IF ~cfg.discovery THEN mainPc' = "startServer" /\ UNCHANGED started
       ELSE IF ok
       THEN mainPc' = "startServer" /\ started' = Append(started, "discovery responder")
       ELSE mainPc' = "fatal: failed to start WS-Discovery responder" /\ UNCHANGED started
    /\ UNCHANGED <<cfg, pathIdx, configured, served, relay, mtxCall>>

\* main, lines 126-129, and Server.Start: ListenAndServe listens or fails.
StartServer(ok) ==
    /\ mainPc = "startServer"
    /\ IF ok
       THEN mainPc' = "serving" /\ started' = Append(started, "http server")
       ELSE mainPc' = "fatal: ONVIF server failed" /\ UNCHANGED started
    /\ UNCHANGED <<cfg, pathIdx, configured, served, relay, mtxCall>>

\* The HTTP server hands a request to its handler.
ServeRequest ==
    /\ mainPc = "serving"
    /\ served < MaxServed
    /\ served' = served + 1
    /\ UNCHANGED <<mainPc, cfg, pathIdx, configured, started, relay, mtxCall>>

InitMainVars ==
    /\ cfg \in [api : BOOLEAN, discovery : BOOLEAN]
    /\ mainPc = AfterRegistry(cfg)
    /\ pathIdx = <<1, 1>>
    /\ configured = <<>>
    /\ started = <<>>
    /\ served = 0

NextMain ==
    \/ \E ok \in BOOLEAN : WaitReadyReturns(ok)
    \/ \E r1 \in AddReplies, r2 \in DeleteReplies, r3 \in AddReplies : ConfigureNextPath(r1, r2, r3)
    \/ StartHealthChecker
    \/ \E ok \in BOOLEAN : StartDiscovery(ok)
    \/ \E ok \in BOOLEAN : StartServer(ok)
    \/ ServeRequest

(***************************************************************************)
(* Health checker                                                           *)
(***************************************************************************)

\* Bound: the failures counted per camera in one run.
MaxFailures == 5

CameraNames == {"cam1", "cam2"}

\* checkCamera, line 85: the failure count that marks a camera unhealthy.
TooManyFailuresOffByOne(n) == n > 3
TooManyFailures(n) == n >= 3

\* History: the outcomes of the last four pings, oldest first.
Remember(log, ok) ==
    IF Len(log) < 4 THEN Append(log, ok) ELSE Append(Tail(log), ok)

\* HealthChecker.checkCamera, lines 70-102; pingOK is whether Ping returned nil.
checkCamera(c, pingOK) ==
    /\ pingLog' = [pingLog EXCEPT ![c] = Remember(@, pingOK)]
    /\ IF ~pingOK
       THEN /\ failures[c] < MaxFailures
            /\ failures' = [failures EXCEPT ![c] = @ + 1]
            /\ health' = IF TooManyFailures(failures[c] + 1) /\ health[c]
                         THEN [health EXCEPT ![c] = FALSE] ELSE health
       ELSE /\ failures' = [failures EXCEPT ![c] = 0]
            /\ health' = IF ~health[c] THEN [health EXCEPT ![c] = TRUE] ELSE health

\* NewCamera (health: true) and NewHealthChecker (failures: empty map, whose
\* missing keys read as 0).
InitHcVars ==
    /\ health = [c \in CameraNames |-> TRUE]
    /\ failures = [c \in CameraNames |-> 0]
    /\ pingLog = [c \in CameraNames |-> <<>>]

NextHealth == \E c \in CameraNames, pingOK \in BOOLEAN : checkCamera(c, pingOK)

(***************************************************************************)
(* Coordinate conversion                                                    *)
(***************************************************************************)

\* float64 values are fixed-point numbers: Unit stands for 1.0.  Unit is a
\* multiple of 355 and of 90, so that pan / 177.5 and tilt / 90 are exact.
Unit == 355 * 90 * 20

\* The float64 NaN, a value outside every range the conversions use.
NaN == 1000 * Unit

\* Go's int, which has 30 bits here: MinInt and MaxInt stand for math.MinInt
\* and math.MaxInt, and addition wraps.
IntBits == 30
MaxInt == 2^(IntBits - 1) - 1
MinInt == 0 - 2^(IntBits - 1)
WrapInt(n) == ((n - MinInt) % (2^IntBits)) + MinInt

\* int(NaN): the conversion of a float64 that int cannot represent succeeds
\* with an implementation-dependent value: the most negative int on amd64,
\* zero on arm64, the most positive one on riscv64.
IntOfNaN == {MinInt, 0, MaxInt}

\* math.Round of the quotient n / d, d > 0: half away from zero.
Round(n, d) ==
    IF n >= 0 THEN (2 * n + d) \div (2 * d) ELSE 0 - ((d - 2 * n) \div (2 * d))

\* int() of the quotient n / d, d > 0: toward zero.
Trunc(n, d) == IF n >= 0 THEN n \div d ELSE 0 - ((0 - n) \div d)

\* clamp, lines 59-68: both comparisons are false for NaN.
clamp(value, min, max) ==
    IF value = NaN THEN NaN
    ELSE IF value < min THEN min
    ELSE IF value > max THEN max
    ELSE value

\* The speed limits, lines 32-37.
SpeedLimit(speed) == IF speed < 1 THEN 1 ELSE IF speed > 9 THEN 9 ELSE speed

\* ONVIFToAtomCam, lines 10-40; nanInt is what int() makes of a NaN.
ONVIFToAtomCam(x, y, velocity, nanInt) ==
    LET cx == clamp(x, 0 - Unit, Unit)
        cy == clamp(y, 0 - Unit, Unit)
        cv == clamp(velocity, 0, Unit)
    IN  [pan   |-> IF cx = NaN THEN nanInt ELSE Round((cx + Unit) * 355, 2 * Unit),
         tilt  |-> IF cy = NaN THEN nanInt ELSE Round((Unit - cy) * 90, Unit),
         speed |-> SpeedLimit(IF cv = NaN THEN WrapInt(nanInt + 1)
                              ELSE Round(cv * 8, Unit) + 1)]

\* AtomCamToONVIF, lines 45-57: pan / 177.5 - 1 and 1 - tilt / 90, clamped.
\* The clamp is taken first, which gives the same value and keeps the
\* arithmetic inside the integers for every int.
AtomCamToONVIFNotInverted(pan, tilt) ==
    [x |-> IF pan <= 0 THEN 0 - Unit ELSE IF pan >= 355 THEN Unit
           ELSE (2 * pan - 355) * (Unit \div 355),
     y |-> IF tilt <= 0 THEN 0 - Unit ELSE IF tilt >= 180 THEN Unit
           ELSE (tilt - 90) * (Unit \div 90)]
AtomCamToONVIF(pan, tilt) ==
    [x |-> IF pan <= 0 THEN 0 - Unit ELSE IF pan >= 355 THEN Unit
           ELSE (2 * pan - 355) * (Unit \div 355),
     y |-> IF tilt <= 0 THEN Unit ELSE IF tilt >= 180 THEN 0 - Unit
           ELSE (90 - tilt) * (Unit \div 90)]

\* The arguments the conversion is run on: x on the half degrees of pan and
\* next to them, with a few y; y on the half degrees of tilt and next to
\* them, with a few x; every sixteenth of the velocity range and next to it;
\* and NaN and values outside [-1, 1] for x and y.
NearBy == {0 - 1, 0, 1}
PanGrid == {j * (Unit \div 355) - Unit + e : j \in 0..710, e \in NearBy}
TiltGrid == {Unit - j * (Unit \div 180) + e : j \in 0..360, e \in NearBy}
InRange(v) == v >= 0 - Unit /\ v <= Unit
FewCoords == {0 - Unit, 0 - 5 * (Unit \div 1000), 0, Unit \div 3, Unit}
OddCoords == {NaN, 0 - 2 * Unit, 2 * Unit, 0 - Unit - 1, Unit + 1}
VelocityGrid == {v \in {j * (Unit \div 16) + e : j \in 0..16, e \in NearBy} : v >= 0 /\ v <= Unit}

CoordInputs ==
    {[x |-> x, y |-> y, velocity |-> v] :
        x \in {g \in PanGrid : InRange(g)}, y \in FewCoords, v \in {Unit \div 2}}
    \cup {[x |-> x, y |-> y, velocity |-> v] :
        x \in FewCoords, y \in {g \in TiltGrid : InRange(g)}, v \in {Unit \div 2}}
    \cup {[x |-> x, y |-> y, velocity |-> v] :
        x \in FewCoords \cup OddCoords, y \in FewCoords \cup OddCoords, v \in VelocityGrid}

NoCoords == [pan |-> 0, tilt |-> 0, speed |-> 0, x |-> 0, y |-> 0, done |-> FALSE]

\* One conversion to native coordinates and back.
Convert ==
    /\ ~cOut.done
    /\ \E nanInt \in IntOfNaN :
         \E native \in {ONVIFToAtomCam(cIn.x, cIn.y, cIn.velocity, nanInt)} :
           \E back \in {AtomCamToONVIF(native.pan, native.tilt)} :
             cOut' = [pan |-> native.pan, tilt |-> native.tilt, speed |-> native.speed,
                      x |-> back.x, y |-> back.y, done |-> TRUE]
    /\ UNCHANGED cIn

InitCoordVars == cIn \in CoordInputs /\ cOut = NoCoords
IdleCoordVars == cIn = [x |-> 0, y |-> 0, velocity |-> 0] /\ cOut = NoCoords

NextCoord == Convert

(***************************************************************************)
(* Configuration and camera registry                                        *)
(***************************************************************************)

\* Bound: the GetProfileByToken calls of one run.
MaxLookups == 3

\* Strings that match validNamePattern and validHostPattern, lines 9-16.
ValidNames == {"cam1", "cam2", "main", "sub", "video0", "video1"}
ValidHosts == {"192.168.1.10", "atomcam.local"}

NoPosition == [set |-> FALSE, Pan |-> 0, Tilt |-> 0]
Position(pan, tilt) == [set |-> TRUE, Pan |-> pan, Tilt |-> tilt]

\* config.PTZPreset: a position, or an MQTT action.
MkPreset(token, pan, tilt, mqtt) == [Token |-> token, Pan |-> pan, Tilt |-> tilt, MQTT |-> mqtt]

\* config.PTZConfig; the fields of view are whole numbers of degrees.
MkPTZ(home, presets, hfov, vfov) ==
    [Home |-> home, Presets |-> presets, HorizontalFOV |-> hfov, VerticalFOV |-> vfov]
NoPTZ == MkPTZ(NoPosition, <<>>, 0, 0)

MkStream(path, profileName, codec) == [Path |-> path, ProfileName |-> profileName, Codec |-> codec]

\* config.CameraConfig, without the credentials and the audio settings.
MkCamera(name, host, port, capPTZ, streams, ptz) ==
    [Name |-> name, Host |-> host, RTSPPort |-> port, HTTPPort |-> port,
     CapPTZ |-> capPTZ, Streams |-> streams, PTZ |-> ptz]

\* Errors are strings, "" for nil.
RECURSIVE FirstError(_)
FirstError(errs) ==
    IF errs = <<>> THEN "" ELSE IF Head(errs) # "" THEN Head(errs) ELSE FirstError(Tail(errs))

\* StreamConfig.Validate, lines 213-243.
ValidateStream(st) ==
    IF st.Path = "" THEN "path is required"
    ELSE IF st.Path \notin ValidNames THEN "invalid stream path"
    ELSE IF st.ProfileName = "" THEN "profile_name is required"
    ELSE IF st.ProfileName \notin ValidNames THEN "invalid profile name"
    ELSE IF st.Codec \notin {"h264", "h265", "hevc"} THEN "invalid codec"
    ELSE ""

\* CameraConfig.Validate, lines 173-191: the loop over the streams, with the
\* duplicate checks inside one camera.
DuplicateIn(cam, i) ==
    IF \E j \in 1..(i - 1) : cam.Streams[j].Path = cam.Streams[i].Path
    THEN "duplicate stream path"
    ELSE IF \E j \in 1..(i - 1) : cam.Streams[j].ProfileName = cam.Streams[i].ProfileName
    THEN "duplicate profile name"
    ELSE ""

\* CameraConfig.Validate, lines 134-210.  Nothing in it reads c.PTZ.
ValidateCamera(cam) ==
    IF cam.Name = "" THEN "name is required"
    ELSE IF cam.Name \notin ValidNames THEN "invalid camera name"
    ELSE IF cam.Host = "" THEN "host is required"
    ELSE IF cam.Host \notin ValidHosts THEN "invalid host"
    ELSE IF cam.RTSPPort <= 0 \/ cam.RTSPPort > 65535 THEN "invalid rtsp_port"
    ELSE IF cam.HTTPPort <= 0 \/ cam.HTTPPort > 65535 THEN "invalid http_port"
    ELSE IF Len(cam.Streams) = 0 THEN "at least one stream must be configured"
    ELSE FirstError([i \in 1..Len(cam.Streams) |->
             IF ValidateStream(cam.Streams[i]) # "" THEN ValidateStream(cam.Streams[i])
             ELSE DuplicateIn(cam, i)])

\* Config.Validate, lines 19-42, for a valid server section.
Validate(cameras) ==
    IF Len(cameras) = 0 THEN "at least one camera must be configured"
    ELSE FirstError([i \in 1..Len(cameras) |->
             IF ValidateCamera(cameras[i]) # "" THEN ValidateCamera(cameras[i])
             ELSE IF \E j \in 1..(i - 1) : cameras[j].Name = cameras[i].Name
             THEN "duplicate camera name"
             ELSE ""])

\* Registry.GetAllProfiles, lines 324-340: the cameras in the order the map
\* iteration yields them, the streams of each in configuration order.
RECURSIVE GetAllProfiles(_, _)
GetAllProfiles(cameras, order) ==
    IF order = <<>> THEN <<>>
    ELSE [i \in 1..Len(cameras[Head(order)].Streams) |->
             [camera |-> Head(order), stream |-> i]]
         \o GetAllProfiles(cameras, Tail(order))

NoProfile == [camera |-> 0, stream |-> 0]

\* Registry.GetProfileByToken, lines 349-358: the first match, NoProfile for
\* the "profile not found" error.
GetProfileByToken(cameras, order, token) ==
    LET profiles == GetAllProfiles(cameras, order)
        hits == {i \in 1..Len(profiles) :
                    cameras[profiles[i].camera].Streams[profiles[i].stream].ProfileName = token}
    IN  IF hits = {} THEN NoProfile
        ELSE profiles[CHOOSE i \in hits : \A j \in hits : i <= j]

\* The orders in which a range over the registry's map may yield n cameras.
MapOrders(n) ==
    {o \in [1..n -> 1..n] : \A i, j \in 1..n : i # j => o[i] # o[j]}

\* Configurations offered to Validate: one or two cameras with one or two
\* streams each, and some that Validate rejects.
StreamLists ==
    {<<MkStream("video0", "main", "h264")>>,
     <<MkStream("video0", "main", "h264"), MkStream("video1", "sub", "h265")>>,
     <<MkStream("video0", "sub", "h264")>>,
     <<MkStream("video0", "main", "h264"), MkStream("video1", "main", "h264")>>,
     <<MkStream("video0", "main", "h264"), MkStream("video0", "sub", "h264")>>,
     <<MkStream("video0", "", "h264")>>,
     <<>>}

CandidateCameras ==
    {MkCamera(n, "192.168.1.10", 554, FALSE, sl, NoPTZ) :
        n \in {"cam1", "cam2", ""}, sl \in StreamLists}

CandidateConfigs ==
    {<<c>> : c \in CandidateCameras}
    \cup {<<c, d>> : c \in CandidateCameras, d \in CandidateCameras}

\* The tokens clients ask for.
LookupTokens == {"main", "sub", "nope"}

\* One GetProfileByToken call.
LookupProfile(token) ==
    /\ nLookups < MaxLookups
    /\ nLookups' = nLookups + 1
    /\ \E order \in MapOrders(Len(config)) :
         lookups' = [lookups EXCEPT ![token] =
                        @ \cup {GetProfileByToken(config, order, token)}]
    /\ UNCHANGED config

\* main, lines 27-48: a configuration that Validate rejects ends the process
\* before the registry exists.
InitRegVars ==
    /\ config \in {c \in CandidateConfigs : Validate(c) = ""}
    /\ lookups = [t \in LookupTokens |-> {}]
    /\ nLookups = 0

IdleLookups ==
    /\ lookups = [t \in LookupTokens |-> {}]
    /\ nLookups = 0

IdleRegVars ==
    /\ config = <<MkCamera("cam1", "192.168.1.10", 554, FALSE,
                           <<MkStream("video0", "main", "h264")>>, NoPTZ)>>
    /\ lookups = [t \in LookupTokens |-> {}]
    /\ nLookups = 0

NextRegistry == \E token \in LookupTokens : LookupProfile(token)

(***************************************************************************)
(* Camera commands                                                          *)
(***************************************************************************)

\* A command is the sequence of its words and of the spaces between them.
Words(verb, args) ==
    <<verb>> \o [i \in 1..(2 * Len(args)) |-> IF i % 2 = 1 THEN " " ELSE args[i \div 2]]

HasPrefix(command, prefix) ==
    Len(command) >= Len(prefix) /\ SubSeq(command, 1, Len(prefix)) = prefix

\* Client.SendCommand, line 58.
allowedPrefixes == {<<"move", " ">>, <<"video", " ">>, <<"property", " ">>, <<"alarm", " ">>}

\* Client.SendCommand, lines 59-69.
AllowedAlways(command) == TRUE
Allowed(command) == \E prefix \in allowedPrefixes : HasPrefix(command, prefix)

\* What a call returns: the commands it transmitted to cmd.cgi and its error.
Outcome2(sent, err) == [sent |-> sent, err |-> err]

\* Client.SendCommand, lines 56-101; ok is whether the camera answers 200.
SendCommand(command, ok) ==
    IF ~Allowed(command) THEN Outcome2(<<>>, "command not allowed")
    ELSE Outcome2(<<command>>, IF ok THEN "" ELSE "unexpected status code")

\* Client.PTZMove, lines 234-250.
PTZMove(pan, tilt, speed, ok) ==
    IF pan < 0 \/ pan > 355 THEN Outcome2(<<>>, "pan out of range")
    ELSE IF tilt < 0 \/ tilt > 180 THEN Outcome2(<<>>, "tilt out of range")
    ELSE IF speed < 1 \/ speed > 9 THEN Outcome2(<<>>, "speed out of range")
    ELSE SendCommand(Words("move", <<ToString(pan), ToString(tilt), ToString(speed)>>), ok)

\* Client.PTZStop, lines 253-258.
StopCommand == Words("move", <<"0", "0", "0">>)
PTZStop(ok) == SendCommand(StopCommand, ok)

\* onvifToAtomCamValue, lines 192-208.
onvifToAtomCamValue(value) ==
    IF value = NaN THEN nanAsInt
    ELSE IF value < 0 THEN 0
    ELSE IF value > Unit THEN 255
    ELSE Trunc(value * 255, Unit)

\* Client.SetBrightness, SetContrast, SetSaturation, SetSharpness, lines 121-149.
VideoSettings == {"bri", "cont", "sat", "sharp"}
SetVideo(setting, value, ok) ==
    SendCommand(Words("video", <<setting, ToString(onvifToAtomCamValue(value))>>), ok)

\* Client.SetIRCutFilter, lines 153-173.
SetIRCutFilter(mode, ok1, ok2) ==
    IF mode \in {"ON", "OFF"}
    THEN LET on == IF mode = "ON" THEN "off" ELSE "on"
             first == SendCommand(Words("property", <<"IrLED", on>>), ok1)
             second == SendCommand(Words("property", <<"nightVision", on>>), ok2)
         IN  IF first.err # "" THEN Outcome2(first.sent, "failed to set IR LED")
             ELSE Outcome2(first.sent \o second.sent, second.err)
    ELSE IF mode = "AUTO" THEN SendCommand(Words("property", <<"nightVision", "auto">>), ok1)
    ELSE Outcome2(<<>>, "invalid IR cut filter mode")

\* Client.SetExposureMode, lines 177-189.
SetExposureMode(mode, minTime, maxTime, ok) ==
    IF mode = "AUTO"
    THEN SendCommand(Words("video", <<"expr", ToString(minTime), ToString(maxTime)>>), ok)
    ELSE IF mode = "MANUAL"
    THEN SendCommand(Words("video", <<"expr", ToString(maxTime), ToString(maxTime)>>), ok)
    ELSE Outcome2(<<>>, "invalid exposure mode")

(***************************************************************************)
(* The PTZ service                                                          *)
(***************************************************************************)

MaxPtzOps == 2

\* Request values are multiples of a thousandth.
Milli == Unit \div 1000

\* NewCamera, lines 86-107.
NewCamera(cam) ==
    IF cam.PTZ.Home.set THEN [pan |-> cam.PTZ.Home.Pan, tilt |-> cam.PTZ.Home.Tilt]
    ELSE [pan |-> 177, tilt |-> 90]

\* x*x + y*y in millionths, NaN when one of them is NaN.
MagSq(x, y) ==
    IF x = NaN \/ y = NaN THEN NaN
    ELSE (x \div Milli) * (x \div Milli) + (y \div Milli) * (y \div Milli)

\* math.Sqrt(x*x + y*y) < 0.01 and > 0.01; both are false for NaN.
MagBelow(x, y) == MagSq(x, y) # NaN /\ MagSq(x, y) < 100
MagAbove(x, y) == MagSq(x, y) # NaN /\ MagSq(x, y) > 100

\* int(math.Round(math.Sqrt(x*x + y*y) * 4.0)): the number of k >= 1 with
\* magnitude * 4 >= k - 0.5.
RoundMag4(x, y) ==
    IF MagSq(x, y) = NaN THEN nanAsInt
    ELSE Cardinality({k \in 1..12 : 64 * MagSq(x, y) >= (2 * k - 1) * (2 * k - 1) * 1000000})

\* The speed of a move, lines 484-491, 756-769 and 893-906: 5 to 9.
MoveSpeed(x, y) == clamp(WrapInt(RoundMag4(x, y) + 5), 5, 9)

\* AbsoluteMove and RelativeMove, lines 756-769 and 893-906.
defaultSpeed(req) ==
    IF req.hasSpeed /\ MagAbove(req.sx, req.sy) THEN MoveSpeed(req.sx, req.sy) ELSE 5

\* GotoHomePosition, lines 540-553.
HomeSpeed(req) ==
    IF req.hasSpeed /\ req.sx # NaN /\ req.sy # NaN /\ MagSq(req.sx, req.sy) > 10000
    THEN clamp(Trunc((req.sx + req.sy) * 4, Unit) + 1, 1, 9)
    ELSE 5

\* int(math.Round(v * fov / 2.0)).
RoundHalfFOV(v, fov) == IF v = NaN THEN nanAsInt ELSE Round(v * fov, 2 * Unit)

\* The check for a position that was never set, lines 707 and 815.
Uninitialized(cur) == cur.pan = MinInt \/ cur.tilt = MinInt \/ cur.pan < 0 \/ cur.tilt < 0

\* Lines 708-716 and 816-824.
FallbackPosition(cam) == NewCamera(cam)

ClampPosition(pan, tilt) == [pan |-> clamp(pan, 0, 355), tilt |-> clamp(tilt, 0, 180)]

\* ContinuousMove, lines 466-482: the estimate after a move of five degrees
\* per unit of velocity.
ContinuousTarget(req, cur) ==
    LET deltaPan == IF req.x = NaN THEN nanAsInt ELSE Trunc(req.x * 5, Unit)
        deltaTilt == IF req.y = NaN THEN nanAsInt ELSE Trunc(req.y * 5, Unit)
    IN  ClampPosition(WrapInt(cur.pan + deltaPan), WrapInt(cur.tilt + deltaTilt))

\* AbsoluteMove with a field of view, lines 718-745.
AbsoluteTarget(cam, req, cur) ==
    LET deltaPan == RoundHalfFOV(req.x, cam.PTZ.HorizontalFOV)
        deltaTilt == WrapInt((IF req.y = NaN THEN nanAsInt
                              ELSE Round((Unit - req.y) * cam.PTZ.VerticalFOV, 2 * Unit))
                             - (cam.PTZ.VerticalFOV \div 2))
    IN  ClampPosition(WrapInt(cur.pan + deltaPan), WrapInt(cur.tilt + deltaTilt))

\* RelativeMove, lines 830-890; the translation is not NaN here.
RelativeTarget(cam, req, cur) ==
    IF cam.PTZ.HorizontalFOV > 0 /\ cam.PTZ.VerticalFOV > 0
    THEN ClampPosition(cur.pan + RoundHalfFOV(req.x, cam.PTZ.HorizontalFOV),
                       cur.tilt + RoundHalfFOV(0 - req.y, cam.PTZ.VerticalFOV))
    ELSE LET current == AtomCamToONVIF(cur.pan, cur.tilt)
             newX == clamp(current.x + req.x, 0 - Unit, Unit)
             newY == clamp(current.y + req.y, 0 - Unit, Unit)
             native == ONVIFToAtomCam(newX, newY, Unit \div 2, nanAsInt)
         IN  [pan |-> native.pan, tilt |-> native.tilt]

\* The position a tracking move stores, from the position it read.
Target(cam, req, cur) ==
    IF req.op = "ContinuousMove" THEN ContinuousTarget(req, cur)
    ELSE IF req.op = "AbsoluteMove" THEN AbsoluteTarget(cam, req, cur)
    ELSE RelativeTarget(cam, req, cur)

\* The speed a tracking move is sent with.
TargetSpeed(req) ==
    IF req.op = "ContinuousMove" THEN MoveSpeed(req.x, req.y) ELSE defaultSpeed(req)

\* GetPresets and GotoPreset, lines 620-640: the token of a preset is its
\* configured one or its index counted from one.
PresetToken(cam, i) ==
    IF cam.PTZ.Presets[i].Token # "" THEN cam.PTZ.Presets[i].Token ELSE ToString(i)

FindPreset(cam, token) ==
    LET hits == {i \in 1..Len(cam.PTZ.Presets) : PresetToken(cam, i) = token}
    IN  IF hits = {} THEN 0 ELSE CHOOSE i \in hits : \A j \in hits : i <= j

\* What a call does before it reads the position: it fails, does nothing,
\* stops, publishes to MQTT, goes to a configured position, or tracks.
Plan(kind, err, pan, tilt, speed) ==
    [kind |-> kind, err |-> err, pan |-> pan, tilt |-> tilt, speed |-> speed]
Fails(err) == Plan("fail", err, 0, 0, 0)

\* GotoHomePosition, lines 528-570.
PlanHome(cam, req) ==
    IF cam.PTZ.Home.set THEN Plan("goto", "", cam.PTZ.Home.Pan, cam.PTZ.Home.Tilt, HomeSpeed(req))
    ELSE Plan("goto", "", 160, 130, HomeSpeed(req))

\* GotoPreset, lines 606-670.
PlanPreset(cam, req) ==
    IF FindPreset(cam, req.preset) = 0 THEN Fails("preset not found")
    ELSE LET preset == cam.PTZ.Presets[FindPreset(cam, req.preset)]
         IN  IF preset.MQTT THEN Plan("mqtt", "", 0, 0, 0)
             ELSE Plan("goto", "", preset.Pan, preset.Tilt, 5)

\* ContinuousMove, lines 437-463.
PlanContinuousTighter(req) ==
    IF req.hasZoom /\ ~req.hasPT THEN Plan("nothing", "", 0, 0, 0)
    ELSE IF MagSq(IF req.hasPT THEN req.x ELSE 0, IF req.hasPT THEN req.y ELSE 0) < 1
    THEN Plan("stop", "", 0, 0, 0)
    ELSE Plan("track", "", 0, 0, 0)
PlanContinuous(req) ==
    IF req.hasZoom /\ ~req.hasPT THEN Plan("nothing", "", 0, 0, 0)
    ELSE IF MagBelow(IF req.hasPT THEN req.x ELSE 0, IF req.hasPT THEN req.y ELSE 0)
    THEN Plan("stop", "", 0, 0, 0)
    ELSE Plan("track", "", 0, 0, 0)

\* AbsoluteMove, lines 684-754.
PlanAbsolute(cam, req) ==
    IF req.hasZoom /\ ~req.hasPT THEN Plan("nothing", "", 0, 0, 0)
    ELSE IF ~req.hasPT THEN Fails("pan/tilt position required")
    ELSE IF cam.PTZ.HorizontalFOV > 0 /\ cam.PTZ.VerticalFOV > 0 THEN Plan("track", "", 0, 0, 0)
    ELSE LET native == ONVIFToAtomCam(req.x, req.y, Unit \div 2, nanAsInt)
         IN  Plan("goto", "", native.pan, native.tilt, defaultSpeed(req))

\* RelativeMove, lines 791-812.
PlanRelative(req) ==
    IF req.hasZoom /\ ~req.hasPT THEN Plan("nothing", "", 0, 0, 0)
    ELSE IF ~req.hasPT THEN Fails("pan/tilt translation required")
    ELSE IF req.x = NaN \/ req.y = NaN THEN Fails("invalid translation values")
    ELSE Plan("track", "", 0, 0, 0)

\* The head of every operation, for example lines 428-435.
PlanOfAnyCamera(cameras, profile, req) ==
    IF profile = NoProfile THEN Fails("profile not found")
    ELSE IF req.op = "Stop" THEN Plan("stop", "", 0, 0, 0)
    ELSE IF req.op = "GotoHomePosition" THEN PlanHome(cameras[profile.camera], req)
    ELSE IF req.op = "GotoPreset" THEN PlanPreset(cameras[profile.camera], req)
    ELSE IF req.op = "ContinuousMove" THEN PlanContinuous(req)
    ELSE IF req.op = "AbsoluteMove" THEN PlanAbsolute(cameras[profile.camera], req)
    ELSE PlanRelative(req)
PlanOf(cameras, profile, req) ==
    IF profile = NoProfile THEN Fails("profile not found")
    ELSE IF ~cameras[profile.camera].CapPTZ THEN Fails("camera does not support PTZ")
    ELSE IF req.op = "Stop" THEN Plan("stop", "", 0, 0, 0)
    ELSE IF req.op = "GotoHomePosition" THEN PlanHome(cameras[profile.camera], req)
    ELSE IF req.op = "GotoPreset" THEN PlanPreset(cameras[profile.camera], req)
    ELSE IF req.op = "ContinuousMove" THEN PlanContinuous(req)
    ELSE IF req.op = "AbsoluteMove" THEN PlanAbsolute(cameras[profile.camera], req)
    ELSE PlanRelative(req)

\* Whether AbsoluteMove and RelativeMove replace a position that was never
\* set, lines 707 and 815; ContinuousMove does not look.
ChecksInitialized(req) == req.op \in {"AbsoluteMove", "RelativeMove"}

\* A request of an ONVIF client.
MkPtzRequest(op, token, hasPT, x, y, hasZoom, hasSpeed, preset) ==
    [op |-> op, token |-> token, hasPT |-> hasPT, x |-> x, y |-> y, hasZoom |-> hasZoom,
     hasSpeed |-> hasSpeed, sx |-> IF hasSpeed THEN 250 * Milli ELSE 0, sy |-> 0,
     preset |-> preset]
NoPtzRequest == MkPtzRequest("", "", FALSE, 0, 0, FALSE, FALSE, "")

PtzRequests ==
    {MkPtzRequest("ContinuousMove", "main", TRUE, 5 * Milli, 5 * Milli, TRUE, FALSE, ""),
     MkPtzRequest("ContinuousMove", "main", TRUE, 8 * Milli, 6 * Milli, FALSE, FALSE, ""),
     MkPtzRequest("ContinuousMove", "main", TRUE, Unit, 0, FALSE, FALSE, ""),
     MkPtzRequest("ContinuousMove", "main", FALSE, 0, 0, TRUE, FALSE, ""),
     MkPtzRequest("ContinuousMove", "main", FALSE, 0, 0, FALSE, FALSE, ""),
     MkPtzRequest("ContinuousMove", "main", TRUE, NaN, 0, FALSE, FALSE, ""),
     MkPtzRequest("ContinuousMove", "sub", TRUE, 0, 0, FALSE, FALSE, ""),
     MkPtzRequest("RelativeMove", "main", TRUE, 100 * Milli, 0, FALSE, FALSE, ""),
     MkPtzRequest("RelativeMove", "nope", TRUE, NaN, 0, FALSE, FALSE, ""),
     MkPtzRequest("AbsoluteMove", "main", TRUE, 500 * Milli, 500 * Milli, FALSE, TRUE, ""),
     MkPtzRequest("AbsoluteMove", "main", TRUE, NaN, 0, FALSE, FALSE, ""),
     MkPtzRequest("GotoHomePosition", "main", FALSE, 0, 0, FALSE, TRUE, ""),
     MkPtzRequest("GotoPreset", "main", FALSE, 0, 0, FALSE, FALSE, "1"),
     MkPtzRequest("GotoPreset", "main", FALSE, 0, 0, FALSE, FALSE, "mq"),
     MkPtzRequest("Stop", "main", FALSE, 0, 0, FALSE, FALSE, "")}

\* The goroutines that serve the requests; a request is taken by the first
\* one that is free.
Callers == {1, 2}

\* A call that is not running, and one that has read the position cur.
NoPtzCall == [pc |-> "idle", req |-> NoPtzRequest, camera |-> 0, cur |-> [pan |-> 0, tilt |-> 0]]
TrackingCall(pc, req, camera, cur) == [pc |-> pc, req |-> req, camera |-> camera, cur |-> cur]

\* A call that returned: what it was, the camera it resolved to, the commands
\* it transmitted and its error.
Returned(req, camera, out) ==
    [req |-> req, camera |-> camera, arg |-> <<>>, sent |-> out.sent, err |-> out.err]
NoReturn == Returned(NoPtzRequest, 0, Outcome2(<<>>, ""))

\* Camera.SetPTZPosition, lines 151-156.
SetPTZPosition(camera, pos) == ptzPos' = [ptzPos EXCEPT ![camera] = pos]

\* The camera's reply matters to the calls that send a command.
Replies(plan) == IF plan.kind \in {"stop", "goto", "mqtt"} THEN BOOLEAN ELSE {TRUE}

\* A call starts and runs up to its return or, for a tracking move, up to
\* Camera.GetPTZPosition (lines 144-148), which ends its read lock.
StartCall(p, req) ==
    /\ call[p].pc = "idle"
    /\ \A q \in Callers : q < p => call[q].pc # "idle"
    /\ nOps < MaxPtzOps
    /\ nOps' = nOps + 1
    /\ \E order \in MapOrders(Len(config)) :
       \E profile \in {GetProfileByToken(config, order, req.token)} :
       \E plan \in {PlanOf(config, profile, req)} :
       \E ok \in Replies(plan) :
         CASE plan.kind = "fail" ->
                /\ last' = Returned(req, profile.camera, Outcome2(<<>>, plan.err))
                /\ UNCHANGED <<ptzPos, call>>
           [] plan.kind = "nothing" ->
                /\ last' = Returned(req, profile.camera, Outcome2(<<>>, ""))
                /\ UNCHANGED <<ptzPos, call>>
           [] plan.kind = "mqtt" ->
                /\ last' = Returned(req, profile.camera,
                                    Outcome2(<<>>, IF ok THEN "" ELSE "failed to publish"))
                /\ UNCHANGED <<ptzPos, call>>
           [] plan.kind = "stop" ->
                /\ last' = Returned(req, profile.camera, PTZStop(ok))
                /\ UNCHANGED <<ptzPos, call>>
           [] plan.kind = "goto" ->
                /\ SetPTZPosition(profile.camera, [pan |-> plan.pan, tilt |-> plan.tilt])
                /\ last' = Returned(req, profile.camera,
                                    PTZMove(plan.pan, plan.tilt, plan.speed, ok))
                /\ UNCHANGED call
           [] plan.kind = "track" ->
                /\ call' = [call EXCEPT ![p] =
                     TrackingCall(IF ChecksInitialized(req) /\ Uninitialized(ptzPos[profile.camera])
                             THEN "uninit" ELSE "ready",
                             req, profile.camera, ptzPos[profile.camera])]
                /\ UNCHANGED <<ptzPos, last>>
    /\ UNCHANGED <<nanAsInt, config, ptzLog>>

\* Lines 707-717 and 815-827: a position that was never set is replaced.
InitPosition(p) ==
    /\ call[p].pc = "uninit"
    /\ SetPTZPosition(call[p].camera, FallbackPosition(config[call[p].camera]))
    /\ call' = [call EXCEPT ![p].pc = "ready",
                            ![p].cur = FallbackPosition(config[call[p].camera])]
    /\ UNCHANGED <<nanAsInt, config, last, ptzLog, nOps>>

\* The tail of a tracking move, for example lines 493-507: the new estimate
\* is computed from the position read before, stored, and sent.
FinishCall(p, ok) ==
    /\ call[p].pc = "ready"
    /\ \E pos \in {Target(config[call[p].camera], call[p].req, call[p].cur)} :
         /\ SetPTZPosition(call[p].camera, pos)
         /\ last' = Returned(call[p].req, call[p].camera,
                             PTZMove(pos.pan, pos.tilt, TargetSpeed(call[p].req), ok))
    /\ ptzLog' = Append(ptzLog, call[p].req)
    /\ call' = [call EXCEPT ![p] = NoPtzCall]
    /\ UNCHANGED <<nanAsInt, config, nOps>>

\* The calls of the imaging client.
ClientCalls ==
    {SetVideo(setting, Unit \div 2, TRUE) : setting \in VideoSettings}
    \cup {SetVideo("bri", value, FALSE) : value \in {2 * Unit, NaN}}
    \cup {SetIRCutFilter("ON", ok, ok2) : ok \in BOOLEAN, ok2 \in BOOLEAN}
    \cup {SetIRCutFilter(mode, TRUE, TRUE) : mode \in {"OFF", "AUTO", "on"}}
    \cup {SetExposureMode(mode, 100, 33333, TRUE) : mode \in {"AUTO", "MANUAL", "OFF"}}

ClientCall(out) ==
    /\ nOps < MaxPtzOps
    /\ nOps' = nOps + 1
    /\ last' = Returned(NoPtzRequest, 0, out)
    /\ UNCHANGED <<nanAsInt, config, ptzPos, call, ptzLog>>

\* Commands handed to SendCommand by a caller other than the clients above.
RawCommands ==
    {Words("reboot", <<>>), <<"move">>, <<"movie", " ">>, Words("exec", <<"move", "1">>),
     Words("move", <<"400", "0", "0">>), Words("alarm", <<"on">>), <<>>}

DirectCall(command, ok) ==
    /\ nOps < MaxPtzOps
    /\ nOps' = nOps + 1
    /\ last' = [Returned(MkPtzRequest("SendCommand", "", FALSE, 0, 0, FALSE, FALSE, ""), 0,
                         SendCommand(command, ok)) EXCEPT !.arg = command]
    /\ UNCHANGED <<nanAsInt, config, ptzPos, call, ptzLog>>

\* Configurations with a PTZ camera "cam1" (profile main) and a fixed camera
\* "cam2" (profile sub); Validate accepts all of them.
PtzSettings ==
    {MkPTZ(NoPosition, <<MkPreset("", 10, 20, FALSE), MkPreset("mq", 0, 0, TRUE)>>, 0, 0),
     MkPTZ(Position(160, 130), <<MkPreset("p", 300, 170, FALSE)>>, 120, 68),
     MkPTZ(Position(400, 0 - 5), <<MkPreset("", 356, 200, FALSE)>>, 120, 68)}

PtzConfigs ==
    {<<MkCamera("cam1", "192.168.1.10", 554, TRUE, <<MkStream("video0", "main", "h264")>>, ptz),
       MkCamera("cam2", "atomcam.local", 554, FALSE, <<MkStream("video0", "sub", "h264")>>, NoPTZ)>> :
        ptz \in PtzSettings}

InitPtzVars ==
    /\ nanAsInt \in IntOfNaN
    /\ config \in {c \in PtzConfigs : Validate(c) = ""}
    /\ ptzPos = [c \in 1..Len(config) |-> NewCamera(config[c])]
    /\ call = [p \in Callers |-> NoPtzCall]
    /\ last = NoReturn
    /\ ptzLog = <<>>
    /\ nOps = 0

IdlePtzVars ==
    /\ nanAsInt = 0
    /\ ptzPos = [c \in 1..Len(config) |-> NewCamera(config[c])]
    /\ call = [p \in Callers |-> NoPtzCall]
    /\ last = NoReturn
    /\ ptzLog = <<>>
    /\ nOps = 0

NextPTZ ==
    \/ \E p \in Callers, req \in PtzRequests : StartCall(p, req)
    \/ \E p \in Callers : InitPosition(p)
    \/ \E p \in Callers, ok \in BOOLEAN : FinishCall(p, ok)
    \/ \E out \in ClientCalls : ClientCall(out)
    \/ \E command \in RawCommands, ok \in BOOLEAN : DirectCall(command, ok)

(***************************************************************************)
(* The snapshot proxy                                                       *)
(***************************************************************************)

MaxSnaps == 2

\* A snapshot request: its method, its Basic credentials ("none", "bad" or
\* "good") and what follows /snapshot/ in its path.
MkSnapRequest(method, auth, name) == [method |-> method, auth |-> auth, name |-> name]
NoSnapRequest == MkSnapRequest("", "none", "")

SnapRequests ==
    {MkSnapRequest("GET", "good", n) : n \in {"cam1", "cam2", "cam9", "", "../cam1"}}
    \cup {MkSnapRequest("GET", a, "cam1") : a \in {"none", "bad"}}
    \cup {MkSnapRequest("POST", "good", "cam1")}

\* Handler, lines 33-77: the answer to a request that does not get as far as
\* the health check, 0 for one that does.
SnapReject(req) ==
    IF req.method # "GET" THEN 405
    ELSE IF req.auth # "good" THEN 401
    ELSE IF req.name = "" THEN 400
    ELSE IF req.name = "../cam1" THEN 400
    ELSE IF req.name \notin CameraNames THEN 404
    ELSE 0

\* Handler, line 80: !cam.GetHealth().
UnavailableNever(c) == FALSE
Unavailable(c) == ~health[c]

\* An answered request: whether it reached the health check and what
\* GetHealth said there, whether a request went to the camera and what the
\* camera was marked as at that moment.
Answered(req, status, checked, healthy, fetched, marked) ==
    [req |-> req, status |-> status, checked |-> checked, healthyAtCheck |-> healthy,
     fetched |-> fetched, healthyAtFetch |-> marked]
NoAnswer == Answered(NoSnapRequest, 0, FALSE, FALSE, FALSE, FALSE)

NoSnapCall == [pc |-> "idle", req |-> NoSnapRequest, healthy |-> FALSE]

\* Handler, lines 31-85: up to the health check.
SnapshotCheck(req) ==
    /\ snapCall.pc = "idle"
    /\ nSnaps < MaxSnaps
    /\ nSnaps' = nSnaps + 1
    /\ IF SnapReject(req) # 0
       THEN /\ snapLast' = Answered(req, SnapReject(req), FALSE, FALSE, FALSE, FALSE)
            /\ UNCHANGED snapCall
       ELSE IF Unavailable(req.name)
       THEN /\ snapLast' = Answered(req, 503, TRUE, health[req.name], FALSE, FALSE)
            /\ UNCHANGED snapCall
       ELSE /\ snapCall' = [pc |-> "fetch", req |-> req, healthy |-> health[req.name]]
            /\ UNCHANGED snapLast

\* Handler, lines 87-98: cam.Client.GetSnapshot() and the answer; ok is
\* whether the camera delivered the image.
SnapshotFetch(ok) ==
    /\ snapCall.pc = "fetch"
    /\ snapLast' = Answered(snapCall.req, IF ok THEN 200 ELSE 500, TRUE, snapCall.healthy,
                            TRUE, health[snapCall.req.name])
    /\ snapCall' = NoSnapCall
    /\ UNCHANGED nSnaps

InitSnapVars ==
    /\ snapCall = NoSnapCall
    /\ snapLast = NoAnswer
    /\ nSnaps = 0

\* The proxy runs next to the health checker, which is watched on "cam1".
NextSnapshot ==
    \/ \E req \in SnapRequests : SnapshotCheck(req) /\ UNCHANGED hcVars
    \/ \E ok \in BOOLEAN : SnapshotFetch(ok) /\ UNCHANGED hcVars
    \/ \E pingOK \in BOOLEAN : checkCamera("cam1", pingOK) /\ UNCHANGED snapVars

(***************************************************************************)
(* Shutdown                                                                 *)
(***************************************************************************)

MaxInflight == 3
GraceTicks == 3

\* main, lines 104-120: what the signal goroutine stops after Shutdown, in
\* that order.
BackgroundTasks == <<"soap cleanup", "registry", "health checker", "discovery">>

Running == procState = "running"

\* A connection is accepted and its request is being served.
AcceptRequest ==
    /\ Running /\ accepting /\ inflight < MaxInflight
    /\ inflight' = inflight + 1
    /\ UNCHANGED <<sigPc, srvMain, accepting, graceLeft, stopped, procState>>

\* A request is answered.
CompleteRequest ==
    /\ Running /\ inflight > 0
    /\ inflight' = inflight - 1
    /\ UNCHANGED <<sigPc, srvMain, accepting, graceLeft, stopped, procState>>

\* Server.Start, lines 84-87: ListenAndServe fails, for example because the
\* port is taken.
ListenFails ==
    /\ Running /\ srvMain = "serving" /\ sigPc = "waiting" /\ inflight = 0
    /\ srvMain' = "returned"
    /\ accepting' = FALSE
    /\ UNCHANGED <<sigPc, inflight, graceLeft, stopped, procState>>

\* main, lines 95-103: the signal arrives and the goroutine calls
\* Server.Shutdown, which closes the listener; ListenAndServe returns
\* ErrServerClosed to the main goroutine at once.
BeginShutdown ==
    /\ Running /\ sigPc = "waiting"
    /\ sigPc' = "shutdown"
    /\ accepting' = FALSE
    /\ srvMain' = "returned"
    /\ UNCHANGED <<inflight, graceLeft, stopped, procState>>

\* Time passes while Shutdown waits for the requests in flight.
GraceTick ==
    /\ Running /\ sigPc = "shutdown" /\ inflight > 0 /\ graceLeft > 0
    /\ graceLeft' = graceLeft - 1
    /\ UNCHANGED <<sigPc, srvMain, accepting, inflight, stopped, procState>>

\* Server.Shutdown, lines 90-92, returns: nothing is in flight, or the
\* context's ten seconds are over.
ShutdownReturns ==
    /\ Running /\ sigPc = "shutdown"
    /\ inflight = 0 \/ graceLeft = 0
    /\ sigPc' = "stopping"
    /\ UNCHANGED <<srvMain, accepting, inflight, graceLeft, stopped, procState>>

\* main, lines 110-120: the background tasks are stopped one by one.
StopTask ==
    /\ Running /\ sigPc = "stopping" /\ Len(stopped) < Len(BackgroundTasks)
    /\ stopped' = Append(stopped, BackgroundTasks[Len(stopped) + 1])
    /\ UNCHANGED <<sigPc, srvMain, accepting, inflight, graceLeft, procState>>

\* main, line 123: os.Exit(0).
ExitZero ==
    /\ Running /\ sigPc = "stopping" /\ Len(stopped) = Len(BackgroundTasks)
    /\ procState' = "exit 0"
    /\ sigPc' = "done"
    /\ UNCHANGED <<srvMain, accepting, inflight, graceLeft, stopped>>

\* main, lines 127-129: Start returned an error, and ErrServerClosed is one;
\* log.Fatalf ends the process with status 1.
FatalExit ==
    /\ Running /\ srvMain = "returned"
    /\ procState' = "exit 1"
    /\ srvMain' = "done"
    /\ UNCHANGED <<sigPc, accepting, inflight, graceLeft, stopped>>

InitShutVars ==
    /\ sigPc = "waiting"
    /\ srvMain = "serving"
    /\ accepting = TRUE
    /\ inflight = 0
    /\ graceLeft = GraceTicks
    /\ stopped = <<>>
    /\ procState = "running"

NextShutdown ==
    \/ AcceptRequest
    \/ CompleteRequest
    \/ ListenFails
    \/ BeginShutdown
    \/ GraceTick
    \/ ShutdownReturns
    \/ StopTask
    \/ ExitZero
    \/ FatalExit

(***************************************************************************)
(* WS-Discovery                                                             *)
(***************************************************************************)

MaxIdLen == 2

\* Strings are sequences of characters.
SpecialChars == {"<", ">", "&", "'", "\""}

\* html.EscapeString, called at lines 225-227: the entity written for a
\* special character.
Entity(ch) ==
    CASE ch = "&" -> <<"&", "a", "m", "p", ";">>
      [] ch = "<" -> <<"&", "l", "t", ";">>
      [] ch = ">" -> <<"&", "g", "t", ";">>
      [] ch = "'" -> <<"&", "#", "3", "9", ";">>
      [] ch = "\"" -> <<"&", "#", "3", "4", ";">>
      [] OTHER -> <<ch>>

RECURSIVE EscapeStringNotAtAll(_)
EscapeStringNotAtAll(str) ==
    IF str = <<>> THEN <<>> ELSE <<Head(str)>> \o EscapeStringNotAtAll(Tail(str))

RECURSIVE EscapeString(_)
EscapeString(str) ==
    IF str = <<>> THEN <<>> ELSE Entity(Head(str)) \o EscapeString(Tail(str))

\* strings.Join(r.scopes, " "), line 226.
RECURSIVE Join(_)
Join(strs) ==
    IF strs = <<>> THEN <<>>
    ELSE IF Len(strs) = 1 THEN strs[1]
    ELSE strs[1] \o <<" ">> \o Join(Tail(strs))

\* NewResponder, lines 112-132, with the fixed parts of the scopes and of
\* the address path shortened to one letter each.
NewResponder(deviceName, baseURL) ==
    [deviceName |-> deviceName,
     xaddrs |-> baseURL \o <<"/", "d">>,
     scopes |-> << <<"t">>, <<"p">>, <<"h", "/">> \o deviceName, <<"n", "/">> \o deviceName >>]

\* Responder.buildProbeMatch, lines 223-258: the three values that are
\* written into the template.
buildProbeMatch(r, relatesTo) ==
    [RelatesTo |-> EscapeString(relatesTo),
     Scopes |-> EscapeString(Join(r.scopes)),
     XAddrs |-> EscapeString(r.xaddrs)]

NoProbeMatch == [RelatesTo |-> <<>>, Scopes |-> <<>>, XAddrs |-> <<>>]

IdChars == {"a"} \cup SpecialChars
RECURSIVE StringsUpTo(_)
StringsUpTo(n) ==
    IF n = 0 THEN {<<>>}
    ELSE StringsUpTo(n - 1) \cup {Append(str, ch) : str \in StringsUpTo(n - 1), ch \in IdChars}

\* A datagram as xml.Unmarshal delivers it: whether it parsed, its Action
\* and its MessageID.
MkProbe(valid, action, messageID) == [valid |-> valid, action |-> action, MessageID |-> messageID]

\* An Action URI of WS-Discovery: the namespace, which holds no "Probe", and
\* the characters of the name after it.
DiscoveryAction(name) ==
    [ns |-> "http://schemas.xmlsoap.org/ws/2005/04/discovery/", name |-> name]
ProbeName == <<"P", "r", "o", "b", "e">>
ActionNames ==
    {ProbeName, ProbeName \o <<"M", "a", "t", "c", "h", "e", "s">>,
     <<"H", "e", "l", "l", "o">>, <<"B", "y", "e">>, <<"R", "e", "s", "o", "l", "v", "e">>}

NoProbe == MkProbe(FALSE, DiscoveryAction(<<>>), <<>>)

Probes ==
    {MkProbe(TRUE, DiscoveryAction(ProbeName), id) : id \in StringsUpTo(MaxIdLen)}
    \cup {MkProbe(TRUE, DiscoveryAction(name), <<"a", "<">>) : name \in ActionNames}
    \cup {NoProbe}

\* strings.Contains(s, sub).
Contains(str, sub) ==
    \E i \in 0..(Len(str) - Len(sub)) : SubSeq(str, i + 1, i + Len(sub)) = sub

\* strings.Contains(probe.Header.Action, "Probe"), line 211.
IsProbeAction(action) == Contains(action.name, ProbeName)

\* Responder.handleProbe, lines 203-220; replied is whether a ProbeMatch was
\* sent.
handleProbe(p) ==
    /\ probe' = p
    /\ probeMatch' = IF p.valid /\ IsProbeAction(p.action)
                     THEN [replied |-> TRUE, body |-> buildProbeMatch(responder, p.MessageID)]
                     ELSE [replied |-> FALSE, body |-> NoProbeMatch]
    /\ UNCHANGED responder

\* The configured device names and base URLs.
DeviceNames == {<<"c", "a", "m">>, <<"<", "&", "'">>}
BaseURLs == {<<"h">>, <<"h", "\"", ">">>}

InitDiscVars ==
    /\ responder \in {NewResponder(n, u) : n \in DeviceNames, u \in BaseURLs}
    /\ probe = NoProbe
    /\ probeMatch = [replied |-> FALSE, body |-> NoProbeMatch]

IdleDiscVars ==
    /\ responder = NewResponder(<<"c", "a", "m">>, <<"h">>)
    /\ probe = NoProbe
    /\ probeMatch = [replied |-> FALSE, body |-> NoProbeMatch]

NextDiscovery == \E p \in Probes : handleProbe(p)

(***************************************************************************)
(* The nonce sweep, step by step                                            *)
(***************************************************************************)

MaxSweepCalls == 2

\* The validation that runs next to the sweep.
SweepValidators == {"v1"}

\* cleanupNonces, line 142: now.Sub(timestamp) > nonceTTL.
SweepDueAtTTL(stored, t) == t - stored >= nonceTTL
SweepDue(stored, t) == t - stored > nonceTTL

NoSweep == [pc |-> "idle", at |-> 0, seen |-> {}, key |-> ""]
NoEviction == [nonce |-> "", stored |-> 0, at |-> 0]
NoValidation == [tok |-> NoToken, res |-> "none", known |-> FALSE]

\* The tokens sent while the sweep is watched: the two good ones, one with a
\* wrong digest, one with a nonce that is not base64, one with a Created
\* that does not parse, one of another user and one in plain text.
SweepTokens ==
    {MkToken("admin", DigestType, "bjE=", CreatedAt(t),
             PasswordDigest("n1", CreatedAt(t), "secret")) : t \in CreatedTimes}
    \cup
    {MkToken("admin", DigestType, "bjE=", CreatedAt(0),
             PasswordDigest("n1", CreatedAt(0), "wrong")),
     MkToken("admin", DigestType, "!!", CreatedAt(0),
             PasswordDigest("", CreatedAt(0), "secret")),
     MkToken("admin", DigestType, "!!", BadCreated,
             PasswordDigest("", BadCreated, "secret")),
     MkToken("eve", DigestType, "bjE=", CreatedAt(0),
             PasswordDigest("n1", CreatedAt(0), "secret")),
     MkToken("admin", "", "bjE=", CreatedAt(0), Plain("secret"))}

\* A validation call returned r for tok; known is whether the nonce was in
\* usedNonces when the call began.
Validated(tok, r, known) == [tok |-> tok, res |-> r, known |-> known]

\* ValidateUsernameToken up to line 93, with the history of the calls that
\* return there.
BeginWatched(p, tok) ==
    /\ nCalls < MaxSweepCalls
    /\ BeginValidate(p, tok)
    /\ vlast' = IF vpc'[p] = "idle"
                THEN Validated(tok, vres', tok.nonce \in DOMAIN usedNonces)
                ELSE vlast
    /\ UNCHANGED <<sweep, okTokens, reaccepted, lastEvict>>

\* ValidateUsernameToken from line 95, with the history of what it accepted.
FinishWatched(p) ==
    /\ FinishValidate(p)
    /\ vlast' = Validated(vtok[p], vres', FALSE)
    /\ okTokens' = IF vres' = "ok" THEN okTokens \cup {vtok[p]} ELSE okTokens
    /\ reaccepted' = IF vres' = "ok" /\ vtok[p] \in okTokens
                     THEN reaccepted \cup {vtok[p]} ELSE reaccepted
    /\ UNCHANGED <<sweep, lastEvict>>

\* cleanupNonces, lines 138-139: the ticker fires and time.Now() is read.
SweepBegin ==
    /\ sweep.pc = "idle"
    /\ DOMAIN usedNonces # {}
    /\ sweep' = [pc |-> "range", at |-> now, seen |-> {}, key |-> ""]
    /\ UNCHANGED <<authVars, vlast, okTokens, reaccepted, lastEvict>>

\* Lines 140-142: Range hands one record to the callback, which compares its
\* timestamp with the time read at the tick.
SweepVisit(n) ==
    /\ sweep.pc = "range"
    /\ n \in DOMAIN usedNonces /\ n \notin sweep.seen
    /\ sweep' = [sweep EXCEPT !.seen = @ \cup {n},
                              !.pc = IF SweepDue(usedNonces[n], sweep.at) THEN "delete" ELSE "range",
                              !.key = IF SweepDue(usedNonces[n], sweep.at) THEN n ELSE ""]
    /\ UNCHANGED <<authVars, vlast, okTokens, reaccepted, lastEvict>>

\* Line 143: usedNonces.Delete(key) removes what is stored under the key at
\* that moment.
SweepDelete ==
    /\ sweep.pc = "delete"
    /\ IF sweep.key \in DOMAIN usedNonces
       THEN /\ usedNonces' = [n \in DOMAIN usedNonces \ {sweep.key} |-> usedNonces[n]]
            /\ lastEvict' = [nonce |-> sweep.key, stored |-> usedNonces[sweep.key], at |-> now]
       ELSE UNCHANGED <<usedNonces, lastEvict>>
    /\ sweep' = [sweep EXCEPT !.pc = "range", !.key = ""]
    /\ UNCHANGED <<now, vpc, vtok, vres, accepted, replayed, spoiled, nCalls,
                   vlast, okTokens, reaccepted>>

\* Range returns: every record that was in the map during the whole Range
\* was visited; one stored meanwhile may have been left out.
SweepEnd ==
    /\ sweep.pc = "range"
    /\ \A n \in DOMAIN usedNonces \ sweep.seen : usedNonces[n] >= sweep.at
    /\ sweep' = NoSweep
    /\ UNCHANGED <<authVars, vlast, okTokens, reaccepted, lastEvict>>

InitSweepVars ==
    /\ sweep = NoSweep
    /\ vlast = NoValidation
    /\ okTokens = {}
    /\ reaccepted = {}
    /\ lastEvict = NoEviction

NextSweep ==
    \/ \E p \in SweepValidators, tok \in SweepTokens : BeginWatched(p, tok)
    \/ \E p \in SweepValidators : FinishWatched(p)
    \/ SweepBegin
    \/ \E n \in NonceStrings : SweepVisit(n)
    \/ SweepDelete
    \/ SweepEnd
    \/ Tick /\ UNCHANGED sweepVars

(***************************************************************************)
(* Waiting for the relay                                                    *)
(***************************************************************************)

\* Bound: the seconds of one run.
MaxWaitSecs == 45

\* Seconds: the ticker's interval (line 48), the timeout main passes, and
\* the timeout of the HTTP client (line 40), after which a poll has returned.
PollInterval == 2
ReadyTimeout == 30
ClientTimeout == 10

\* What one GET of the global configuration gives: an error of the transport
\* and no response, or a response with its status.
MkPoll(err, status) == [err |-> err, status |-> status]
PollOutcomes ==
    {MkPoll("connection refused", 0), MkPoll("context deadline exceeded", 0),
     MkPoll("", 200), MkPoll("", 503)}

\* Line 61: time.Now().After(deadline).
AfterDeadlineNever(t, deadline) == FALSE
AfterDeadline(t, deadline) == t > deadline

\* WaitReady at its first line: the clock at 0, the ticker created.
WaitStart ==
    [pc |-> "wait", t |-> 0, deadline |-> ReadyTimeout, pending |-> FALSE, began |-> 0,
     polls |-> 0, seen |-> "", result |-> "none", wrapped |-> ""]

\* One second passes.  The ticker puts a tick in its channel, which holds
\* one, every PollInterval seconds; a poll lasts no longer than the client's
\* timeout.
Elapse ==
    /\ wr.pc # "done"
    /\ wr.t < MaxWaitSecs
    /\ wr.pc = "poll" => wr.t < wr.began + ClientTimeout
    /\ wr' = [wr EXCEPT !.t = @ + 1,
                        !.pending = @ \/ (wr.t + 1) % PollInterval = 0]

\* Lines 52-54: the select receives a tick and the GET is sent.
ReceiveTick ==
    /\ wr.pc = "wait"
    /\ wr.pending
    /\ wr' = [wr EXCEPT !.pc = "poll", !.pending = FALSE, !.began = wr.t, !.polls = @ + 1]

\* Lines 54-63: the GET returns; 200 ends the wait, anything else ends it only
\* after the deadline, with the error of this GET wrapped.
PollReturns(outcome) ==
    /\ wr.pc = "poll"
    /\ wr' = [wr EXCEPT
                !.seen = IF outcome.err # "" THEN outcome.err ELSE @,
                !.pc = IF outcome.err = "" /\ outcome.status = 200 THEN "done"
                       ELSE IF AfterDeadline(wr.t, wr.deadline) THEN "done" ELSE "wait",
                !.result = IF outcome.err = "" /\ outcome.status = 200 THEN "ok"
                           ELSE IF AfterDeadline(wr.t, wr.deadline) THEN "not ready" ELSE @,
                !.wrapped = IF outcome.err = "" /\ outcome.status = 200 THEN @
                            ELSE IF AfterDeadline(wr.t, wr.deadline) THEN outcome.err ELSE @]

InitWaitVars == wr = WaitStart

NextWait ==
    \/ Elapse
    \/ ReceiveTick
    \/ \E outcome \in PollOutcomes : PollReturns(outcome)

(***************************************************************************)
(* Imaging service                                                          *)
(***************************************************************************)

\* Bound: the SetImagingSettings calls of one run.
MaxImgCalls == 3

\* ImagingSettings: the members that are present.
MkSettings(hasBrightness, hasContrast, irCutFilter, exposureMode) ==
    [hasBrightness |-> hasBrightness, hasContrast |-> hasContrast,
     irCutFilter |-> irCutFilter, exposureMode |-> exposureMode]
ImagingRequests ==
    {MkSettings(TRUE, FALSE, "", ""), MkSettings(TRUE, TRUE, "ON", ""),
     MkSettings(FALSE, FALSE, "AUTO", "AUTO"), MkSettings(FALSE, FALSE, "", "")}

\* The tokens clients send: the video source the relay advertises, and the
\* name of a camera.
VideoSourceTokens == {"VideoSource_1", "cam2"}

\* Registry.List, part_003 lines 310-321: the cameras in the order of one
\* iteration over the map.
List(cameras, order) == [i \in 1..Len(cameras) |-> order[i]]

\* The commands of lines 169-218 one after the other, up to the first error.
RECURSIVE ApplyAll(_)
ApplyAll(outs) ==
    IF outs = <<>> THEN Outcome2(<<>>, "")
    ELSE IF Head(outs).err # "" THEN Head(outs)
    ELSE LET rest == ApplyAll(Tail(outs))
         IN  Outcome2(Head(outs).sent \o rest.sent, rest.err)

\* Service.SetImagingSettings, lines 156-221, with all settings at 0.5: the
\* camera it picks, for whatever token, and what it sends to it; capIR is the
\* IR capability of that camera and ok whether the camera answers.
SetImagingSettings(cameras, order, token, settings, capIR, ok) ==
    IF Len(cameras) = 0 THEN [camera |-> 0, out |-> Outcome2(<<>>, "no cameras configured")]
    ELSE [camera |-> List(cameras, order)[1],
          out |-> ApplyAll(
             (IF settings.hasBrightness THEN <<SetVideo("bri", Unit \div 2, ok)>> ELSE <<>>)
             \o (IF settings.hasContrast THEN <<SetVideo("cont", Unit \div 2, ok)>> ELSE <<>>)
             \o (IF settings.irCutFilter # "" /\ capIR
                 THEN <<SetIRCutFilter(settings.irCutFilter, ok, ok)>> ELSE <<>>)
             \o (IF settings.exposureMode # ""
                 THEN <<SetExposureMode(settings.exposureMode, 1, 1683, ok)>> ELSE <<>>))]

NoImagingCall == [token |-> "", camera |-> 0, sent |-> <<>>, err |-> ""]

\* One SetImagingSettings request.
SetImagingSettingsCall(token, settings, capIR, ok) ==
    /\ nImg < MaxImgCalls
    /\ nImg' = nImg + 1
    /\ \E order \in MapOrders(Len(config)) :
       \E res \in {SetImagingSettings(config, order, token, settings, capIR, ok)} :
         /\ imgLast' = [token |-> token, camera |-> res.camera,
                        sent |-> res.out.sent, err |-> res.out.err]
         /\ imgServed' = [imgServed EXCEPT ![token] =
                             IF res.out.sent # <<>> THEN @ \cup {res.camera} ELSE @]
    /\ UNCHANGED config

InitImgVars ==
    /\ imgLast = NoImagingCall
    /\ imgServed = [t \in VideoSourceTokens |-> {}]
    /\ nImg = 0

NextImaging ==
    \E token \in VideoSourceTokens, settings \in ImagingRequests,
       capIR \in BOOLEAN, ok \in BOOLEAN :
        SetImagingSettingsCall(token, settings, capIR, ok)

(***************************************************************************)
(* Discovery read loop                                                      *)
(***************************************************************************)

\* Bounds: the length of the read buffer (8192 in the code) and the
\* datagrams of one run.
BufLen == 2
MaxRecv == 3

Datagrams == {<<"a">>, <<"b">>, <<"a", "b">>, <<"b", "a", "a">>}


\* conn.ReadFromUDP(buffer), line 177: the number of bytes read and the
\* buffer afterwards; what does not fit is dropped.
ReadFromUDP(buf, datagram) ==
    [n |-> Min(Len(datagram), Len(buf)),
     buf |-> [i \in 1..Len(buf) |-> IF i <= Len(datagram) THEN datagram[i] ELSE buf[i]]]

\* Lines 192-193: a new slice with the first n bytes of the buffer; and the
\* slice buffer[:n] itself, which shares the buffer's memory.
SliceOf(buf, n) == [shared |-> TRUE, n |-> n, bytes |-> <<>>]
CopyOf(buf, n) == [shared |-> FALSE, n |-> n, bytes |-> SubSeq(buf, 1, n)]

\* The bytes a slice holds when the buffer is buf.
BytesOf(data, buf) == IF data.shared THEN SubSeq(buf, 1, data.n) ELSE data.bytes

\* Responder.run, lines 174-196: a datagram is read, copied and handed to a
\* new goroutine.
Receive(datagram) ==
    /\ nRecv < MaxRecv
    /\ nRecv' = nRecv + 1
    /\ \E read \in {ReadFromUDP(buffer, datagram)} :
         /\ buffer' = read.buf
         /\ handlers' = Append(handlers,
                               [pc |-> "started", data |-> CopyOf(read.buf, read.n),
                                datagram |-> datagram, parsed |-> <<>>, at |-> 0])

\* Responder.handleProbe, line 205: the goroutine parses its data.
Parse(h) ==
    /\ handlers[h].pc = "started"
    /\ handlers' = [handlers EXCEPT ![h].pc = "done",
                                    ![h].parsed = BytesOf(handlers[h].data, buffer),
                                    ![h].at = nRecv]
    /\ UNCHANGED <<buffer, nRecv>>

InitBufVars ==
    /\ buffer = [i \in 1..BufLen |-> "0"]
    /\ handlers = <<>>
    /\ nRecv = 0

NextBuffer ==
    \/ \E datagram \in Datagrams : Receive(datagram)
    \/ \E h \in 1..Len(handlers) : Parse(h)

(***************************************************************************)
(* Background loops                                                         *)
(***************************************************************************)

\* Bound: the invocations of a loop's stop operation.
MaxStops == 3

TickerLoops == {"nonce sweep", "challenge sweep", "health checker"}
Loops == TickerLoops \cup {"discovery"}

\* StopCleanup (auth.go 31-35) and Transport.Close (proxy.go 151-155):
\* sync.Once around close(done); HealthChecker.Stop (part_003 38-40) and
\* Responder.Stop (uuid.go 155-160): the context's cancel, and a Close of the
\* connection whose error is dropped.  Closing a closed channel panics.
SignalAgain(closed) == [stopped |-> TRUE, panics |-> closed]
SignalOnce(closed) == [stopped |-> TRUE, panics |-> FALSE]

\* The loop name at the top of its for, nothing pending.
LoopStart(name) ==
    [name |-> name, pc |-> "select", stopped |-> FALSE, tick |-> FALSE, stops |-> 0,
     panicked |-> FALSE, late |-> FALSE]

\* The stop operation is invoked.
Stop ==
    /\ task.stops < MaxStops
    /\ \E out \in {SignalOnce(task.stopped)} :
         task' = [task EXCEPT !.stops = @ + 1, !.stopped = out.stopped,
                              !.panicked = @ \/ out.panics]

\* The ticker of a running loop puts a tick in its channel.
TickArrives ==
    /\ task.name \in TickerLoops
    /\ task.pc # "exited"
    /\ ~task.tick
    /\ task' = [task EXCEPT !.tick = TRUE]

\* The select takes the stop signal: the loop returns.
SelectDone ==
    /\ task.pc = "select"
    /\ task.stopped
    /\ task' = [task EXCEPT !.pc = "exited"]

\* The select takes the tick, whether the stop signal is there or not, and
\* the sweep or the health check begins.
SelectTick ==
    /\ task.name \in TickerLoops
    /\ task.pc = "select"
    /\ task.tick
    /\ task' = [task EXCEPT !.pc = "round", !.tick = FALSE, !.late = @ \/ task.stopped]

\* The sweep or the health check is over.
RoundEnds ==
    /\ task.pc = "round"
    /\ task' = [task EXCEPT !.pc = "select"]

\* uuid.go 170-177: no stop signal, so the select takes its default and the
\* loop reads with a deadline of one second.
SelectDefault ==
    /\ task.name = "discovery"
    /\ task.pc = "select"
    /\ ~task.stopped
    /\ task' = [task EXCEPT !.pc = "read"]

\* uuid.go 177-189: the read returns a datagram, or an error (always, once
\* the connection is closed), after which the loop returns if it was stopped.
ReadReturns(got) ==
    /\ task.pc = "read"
    /\ got => ~task.stopped
    /\ task' = [task EXCEPT !.pc = IF got THEN "got"
                                   ELSE IF task.stopped THEN "exited" ELSE "select"]

\* uuid.go 191-196: the handler goroutine is started.
StartHandler ==
    /\ task.pc = "got"
    /\ task' = [task EXCEPT !.pc = "select", !.late = @ \/ task.stopped]

InitTaskVars == task \in {LoopStart(name) : name \in Loops}
IdleTaskVars == task = LoopStart("nonce sweep")

NextTasks ==
    \/ Stop
    \/ TickArrives
    \/ SelectDone
    \/ SelectTick
    \/ RoundEnds
    \/ SelectDefault
    \/ \E got \in BOOLEAN : ReadReturns(got)
    \/ StartHandler

InitLateVars == InitImgVars /\ InitBufVars /\ IdleTaskVars

IdleEdgeVars ==
    InitSnapVars /\ InitShutVars /\ IdleDiscVars /\ InitSweepVars /\ InitWaitVars /\ InitLateVars

\* The start-up variables of a process whose start-up is not run.
IdleMainVars ==
    /\ cfg = [api |-> FALSE, discovery |-> FALSE]
    /\ mainPc = "serving"
    /\ pathIdx = <<1, 1>>
    /\ configured = <<>>
    /\ started = <<>>
    /\ served = 0

\* The variables of the subsystems a specification does not run.
IdleDeviceVars == IdleCoordVars /\ IdleRegVars /\ IdlePtzVars /\ IdleEdgeVars
IdleMtxVars == relay = [n \in PathNames |-> NoPath] /\ mtxCall = NoCall
InitBase == InitAuthVars /\ InitGwVars /\ IdleMtxVars /\ InitDigVars /\ IdleMainVars /\ InitHcVars
coreVars == <<authVars, gwVars, mtxVars, digVars, mainVars, hcVars>>

InitAuth == InitAuthVars /\ InitGwVars /\ IdleMtxVars /\ InitDigVars /\ IdleMainVars /\ InitHcVars /\ IdleDeviceVars
SpecAuth ==
    InitAuth /\ [][NextAuth /\ UNCHANGED <<gwVars, mtxVars, digVars, mainVars, hcVars, deviceVars>>]_vars

InitGateway == InitAuth
SpecGateway ==
    InitGateway /\ [][NextGateway /\ UNCHANGED <<mtxVars, digVars, mainVars, hcVars, deviceVars>>]_vars

InitMtx == InitAuthVars /\ InitGwVars /\ InitMtxVars /\ InitDigVars /\ IdleMainVars /\ InitHcVars /\ IdleDeviceVars
SpecMtx ==
    InitMtx /\ [][NextMtx /\ UNCHANGED <<authVars, gwVars, digVars, mainVars, hcVars, deviceVars>>]_vars

InitDigest == InitAuth
SpecDigest ==
    InitDigest /\ [][NextDigest /\ UNCHANGED <<authVars, gwVars, mtxVars, mainVars, hcVars, deviceVars>>]_vars

InitMain == InitAuthVars /\ InitGwVars /\ InitMtxVars /\ InitDigVars /\ InitMainVars /\ InitHcVars /\ IdleDeviceVars
SpecMain ==
    InitMain /\ [][NextMain /\ UNCHANGED <<authVars, gwVars, digVars, hcVars, deviceVars>>]_vars

InitHealth == InitAuth
SpecHealth ==
    InitHealth /\ [][NextHealth /\ UNCHANGED <<authVars, gwVars, mtxVars, digVars, mainVars, deviceVars>>]_vars

InitCoord == InitBase /\ InitCoordVars /\ IdleRegVars /\ IdlePtzVars /\ IdleEdgeVars
SpecCoord == InitCoord /\ [][NextCoord /\ UNCHANGED <<coreVars, regVars, ptzVars, edgeVars>>]_vars

InitRegistry == InitBase /\ IdleCoordVars /\ InitRegVars /\ IdlePtzVars /\ IdleEdgeVars
SpecRegistry ==
    InitRegistry /\ [][NextRegistry /\ UNCHANGED <<coreVars, coordVars, ptzVars, edgeVars>>]_vars

InitPTZ == InitBase /\ IdleCoordVars /\ IdleLookups /\ InitPtzVars /\ IdleEdgeVars
SpecPTZ ==
    InitPTZ /\ [][NextPTZ /\ UNCHANGED <<coreVars, coordVars, lookups, nLookups, edgeVars>>]_vars

\* Every PTZ operation on a profile that does not exist and on the profile of
\* the camera without PTZ, next to two operations on the PTZ camera.
PtzOperations ==
    {"ContinuousMove", "Stop", "GotoHomePosition", "GotoPreset", "AbsoluteMove", "RelativeMove"}
RefusedRequests ==
    {MkPtzRequest(op, token, TRUE, Unit, 0, FALSE, FALSE, "1") :
        op \in PtzOperations, token \in {"nope", "sub"}}
ServedRequests ==
    {MkPtzRequest("GotoPreset", "main", FALSE, 0, 0, FALSE, FALSE, "1"),
     MkPtzRequest("ContinuousMove", "main", TRUE, Unit, 0, FALSE, FALSE, "")}
NextRefused ==
    \/ \E p \in Callers, req \in RefusedRequests \cup ServedRequests : StartCall(p, req)
    \/ \E p \in Callers, ok \in BOOLEAN : FinishCall(p, ok)
SpecRefused ==
    InitPTZ /\ [][NextRefused /\ UNCHANGED <<coreVars, coordVars, lookups, nLookups, edgeVars>>]_vars

\* Two cameras, or one.
InitImaging ==
    /\ config \in PtzConfigs \cup {<<c[1]>> : c \in PtzConfigs}
    /\ Validate(config) = ""
    /\ InitBase /\ IdleCoordVars /\ IdleLookups /\ IdlePtzVars /\ IdleEdgeVars
SpecImaging ==
    InitImaging /\ [][NextImaging /\ UNCHANGED <<coreVars, coordVars, lookups, nLookups, ptzVars,
                                                 snapVars, shutVars, discVars, sweepVars,
                                                 waitVars, bufVars, taskVars>>]_vars

InitBuffer == InitAuth
SpecBuffer ==
    InitBuffer /\ [][NextBuffer /\ UNCHANGED <<coreVars, coordVars, regVars, ptzVars,
                                               snapVars, shutVars, discVars, sweepVars,
                                               waitVars, imgVars, taskVars>>]_vars

InitTasks ==
    /\ InitBase /\ IdleCoordVars /\ IdleRegVars /\ IdlePtzVars /\ InitSnapVars /\ InitShutVars
    /\ IdleDiscVars /\ InitSweepVars /\ InitWaitVars /\ InitImgVars /\ InitBufVars
    /\ InitTaskVars
TasksStep ==
    NextTasks /\ UNCHANGED <<coreVars, coordVars, regVars, ptzVars, snapVars, shutVars,
                             discVars, sweepVars, waitVars, imgVars, bufVars>>
SpecTasks == InitTasks /\ [][TasksStep]_vars

\* Every goroutine runs, every read returns, and a select whose stop signal is
\* ready again and again takes it at some time (Go chooses among the ready
\* cases at random).
Others == <<coreVars, coordVars, regVars, ptzVars, snapVars, shutVars, discVars, sweepVars,
            waitVars, imgVars, bufVars>>
SpecTasksFair ==
    /\ SpecTasks
    /\ SF_vars(SelectDone /\ UNCHANGED Others)
    /\ WF_vars(RoundEnds /\ UNCHANGED Others)
    /\ WF_vars((\E got \in BOOLEAN : ReadReturns(got)) /\ UNCHANGED Others)
    /\ WF_vars(StartHandler /\ UNCHANGED Others)

InitSnapshot == InitAuth
SpecSnapshot ==
    InitSnapshot /\ [][NextSnapshot /\ UNCHANGED <<authVars, gwVars, mtxVars, digVars, mainVars,
                                                   coordVars, regVars, ptzVars, shutVars, discVars, sweepVars, waitVars, lateVars>>]_vars

InitShutdown == InitAuth
SpecShutdown ==
    InitShutdown /\ [][NextShutdown /\ UNCHANGED <<coreVars, coordVars, regVars, ptzVars,
                                                   snapVars, discVars, sweepVars, waitVars, lateVars>>]_vars

InitDiscovery ==
    InitBase /\ IdleCoordVars /\ IdleRegVars /\ IdlePtzVars /\ InitSnapVars /\ InitShutVars
    /\ InitDiscVars /\ InitSweepVars /\ InitWaitVars /\ InitLateVars
SpecDiscovery ==
    InitDiscovery /\ [][NextDiscovery /\ UNCHANGED <<coreVars, coordVars, regVars, ptzVars,
                                                     snapVars, shutVars, sweepVars, waitVars, lateVars>>]_vars

InitSweep == InitAuth
InitWait == InitAuth
WaitStep ==
    NextWait /\ UNCHANGED <<authVars, gwVars, mtxVars, digVars, mainVars, hcVars, coordVars,
                            regVars, ptzVars, snapVars, shutVars, discVars, sweepVars, lateVars>>
SpecWait == InitWait /\ [][WaitStep]_vars

\* The goroutine runs, the clock advances and every GET returns.
SpecWaitFair ==
    /\ SpecWait
    /\ WF_vars(Elapse /\ UNCHANGED <<authVars, gwVars, mtxVars, digVars, mainVars, hcVars,
                                     coordVars, regVars, ptzVars, snapVars, shutVars,
                                     discVars, sweepVars, lateVars>>)
    /\ WF_vars(ReceiveTick /\ UNCHANGED <<authVars, gwVars, mtxVars, digVars, mainVars, hcVars,
                                          coordVars, regVars, ptzVars, snapVars, shutVars,
                                          discVars, sweepVars, lateVars>>)
    /\ WF_vars((\E outcome \in PollOutcomes : PollReturns(outcome))
               /\ UNCHANGED <<authVars, gwVars, mtxVars, digVars, mainVars, hcVars,
                              coordVars, regVars, ptzVars, snapVars, shutVars,
                              discVars, sweepVars, lateVars>>)

SpecSweep ==
    InitSweep /\ [][NextSweep /\ UNCHANGED <<gwVars, mtxVars, digVars, mainVars, hcVars, coordVars,
                                             regVars, ptzVars, snapVars, shutVars, discVars,
                                             waitVars, lateVars>>]_vars

(***************************************************************************)
(* Properties of the WS-Security validator                                  *)
(***************************************************************************)

NoneInFlight(n) == \A p \in Validators : vpc[p] = "stored" => vtok[p].nonce # n

\* C1: replay prevention.  Among the calls that validate a good digest token
\* (right username, right digest, Created inside the window when the call
\* checks it) with one nonce, and with no purge of that nonce in between, never
\* more than one returns nil, and once none of them is still running exactly
\* one has returned nil and every other one the replay error.
C1_ReplayPrevention ==
    \A n \in NonceStrings :
        ~spoiled[n] =>
            /\ accepted[n] <= 1
            /\ (NoneInFlight(n) /\ accepted[n] + replayed[n] >= 1) => accepted[n] = 1

\* Three calls with the nonce: one accepted, two rejected as replays.
C1_Witness ==
    /\ ~spoiled["bjE="]
    /\ accepted["bjE="] = 1
    /\ replayed["bjE="] = 2
    /\ NoneInFlight("bjE=")

(***************************************************************************)
(* Properties of the SOAP gateway                                           *)
(***************************************************************************)

\* ValidateUsernameToken accepts the Security header of req, given the nonce
\* map m and the time t before the request.
AuthAccepts(req, m, t) ==
    /\ req.security.present
    /\ UnmarshalOK(req.body, ReadLen(req.body.len))
    /\ ValidateUsernameToken(req.security.tok, m, t).err = ""

\* The handler got as far as the action name of req.
ActionRead(req) ==
    /\ req.method = "POST"
    /\ ~req.readErr
    /\ GetActionOK(req.body, ReadLen(req.body.len))

\* C2: authentication gate.  On every endpoint a request whose action is not
\* GetSystemDateAndTime reaches a service operation, or gets a 200, only if
\* ValidateUsernameToken accepted its Security header; GetSystemDateAndTime,
\* sent to the device endpoint or to the root fallback without any Security
\* header, is answered 200.
C2_AuthGate ==
    [][ /\ (gwReq'.action # "GetSystemDateAndTime"
              /\ (gwResp'.status = 200 \/ gwTrace'.op # ""))
            => AuthAccepts(gwReq', usedNonces, now)
        /\ (ActionRead(gwReq') /\ gwReq'.endpoint \in {"device", "root"}
              /\ gwReq'.action = "GetSystemDateAndTime" /\ ~gwReq'.security.present)
            => (gwResp'.status = 200 /\ gwTrace'.op = "GetSystemDateAndTime")
      ]_vars

\* A PTZ move posted to the root fallback with an accepted digest token.
C2_Witness ==
    /\ gwReq.endpoint = "root"
    /\ gwReq.action = "ContinuousMove"
    /\ gwReq.security.tok.ptype = DigestType
    /\ gwResp.status = 200
    /\ gwTrace.op = "ContinuousMove"

\* The handler of req authenticates: the action was read, belongs to a service
\* (always so off the root fallback) and is not the exempt time query.
AuthRequired(req) ==
    /\ ActionRead(req)
    /\ (req.endpoint = "root" => RouteOf(req.action) # "")
    /\ ~(req.action = "GetSystemDateAndTime"
         /\ (IF req.endpoint = "root" THEN RouteOf(req.action) ELSE req.endpoint) = "device")

\* C3: no credential oracle.  Whatever makes the authentication of a request
\* fail (no or unreadable Security header, wrong username, wrong password or
\* digest, replayed nonce, Created out of the window, unsupported password
\* type), the response is the one NotAuthorized fault, with its fixed text.
C3_NoCredentialOracle ==
    [][ (AuthRequired(gwReq') /\ ~AuthAccepts(gwReq', usedNonces, now))
            => gwResp' = NewNotAuthorizedFault ]_vars

\* A replayed nonce, answered with the NotAuthorized fault.
C3_Witness ==
    /\ gwTrace.authRun
    /\ gwTrace.authErr = ReplayError
    /\ gwResp = NewNotAuthorizedFault

\* C9: body size ceiling.  A POST whose body is larger than 1 MiB is answered
\* with an Action-Failed fault, and the handler neither authenticates nor
\* dispatches what it read of it.
C9_BodyCeiling ==
    (gwReq.method = "POST" /\ ~gwReq.readErr /\ gwReq.body.len > BodyLimit)
        => /\ gwResp.subcode = "ter:Action/Failure"
           /\ ~gwTrace.authRun
           /\ gwTrace.op = ""

(***************************************************************************)
(* Properties of the mediamtx client                                        *)
(***************************************************************************)

\* The reply is the relay's "already exists" answer: HTTP 400 whose JSON body
\* carries exactly that error message.
SaysExists(reply) ==
    /\ ~reply.transportErr
    /\ reply.status = 400
    /\ reply.json
    /\ reply.msg = "path already exists"

Succeeded(reply) == ~reply.transportErr /\ reply.status = 200

CountOp(calls, op) == Cardinality({i \in DOMAIN calls : calls[i].op = op})

\* What C4 and its amendment share: the first request is an add; a delete is
\* issued only as the second request and only after the "already exists"
\* answer; after any other failure of the first add nothing more is issued and
\* its error is returned unchanged; never more than two adds and one delete.
CallSequenceCommon(c) ==
    /\ c.calls[1].op = "add"
    /\ \A i \in DOMAIN c.calls :
          c.calls[i].op = "delete" => (i = 2 /\ SaysExists(c.calls[1].reply))
    /\ (~Succeeded(c.calls[1].reply) /\ ~SaysExists(c.calls[1].reply))
          => (Len(c.calls) = 1 /\ c.err = addPath(c.calls[1].reply) /\ c.err # NoErr)
    /\ Succeeded(c.calls[1].reply) => (Len(c.calls) = 1 /\ c.err = NoErr)
    /\ CountOp(c.calls, "add") <= 2
    /\ CountOp(c.calls, "delete") <= 1

\* C4 as stated: ... and, once it has issued the delete, ConfigurePath issues
\* exactly one more add.
C4_CallSequenceAsStated ==
    mtxCall # NoCall =>
        /\ CallSequenceCommon(mtxCall)
        /\ SaysExists(mtxCall.calls[1].reply)
              => (Len(mtxCall.calls) = 3 /\ mtxCall.calls[2].op = "delete"
                  /\ mtxCall.calls[3].op = "add")

\* C4, amended: after the "already exists" answer ConfigurePath issues the
\* delete; it issues exactly one more add when the delete succeeded, and no
\* further request (returning the delete's error, wrapped) when it failed.
C4_CallSequence ==
    mtxCall # NoCall =>
        /\ CallSequenceCommon(mtxCall)
        /\ SaysExists(mtxCall.calls[1].reply)
              => /\ Len(mtxCall.calls) >= 2
                 /\ mtxCall.calls[2].op = "delete"
                 /\ IF Succeeded(mtxCall.calls[2].reply)
                    THEN Len(mtxCall.calls) = 3 /\ mtxCall.calls[3].op = "add"
                    ELSE Len(mtxCall.calls) = 2 /\ mtxCall.err.wrap = "failed to delete existing path"

\* The add was answered "already exists" and the delete then failed.
C4_Witness ==
    /\ mtxCall # NoCall
    /\ SaysExists(mtxCall.calls[1].reply)
    /\ Len(mtxCall.calls) = 2
    /\ ~Succeeded(mtxCall.calls[2].reply)
    /\ mtxCall.err.wrap = "failed to delete existing path"

\* The relay behaved, during the last call, as the relay of C5: an add fails
\* with "already exists" exactly when the path is there, a delete removes it.
Faithful(c) ==
    /\ c.calls[1].reply = IF c.before[c.name] # NoPath THEN ExistsReply ELSE OkReply
    /\ \A i \in DOMAIN c.calls : i > 1 => c.calls[i].reply = OkReply

\* C5: idempotence.  Against such a relay ConfigurePath(name, cfg) succeeds and
\* leaves the relay holding cfg for name and what it held before for the other
\* paths, whether name was absent, held cfg already (a second call in a row) or
\* held a stale configuration: the state one call against an empty relay gives.
C5_Idempotent ==
    (mtxCall # NoCall /\ Faithful(mtxCall)) =>
        /\ mtxCall.err = NoErr
        /\ relay = [mtxCall.before EXCEPT ![mtxCall.name] = mtxCall.cfg]

\* A call that found a stale, different configuration and replaced it.
C5_Witness ==
    /\ mtxCall # NoCall
    /\ Faithful(mtxCall)
    /\ mtxCall.before[mtxCall.name] \notin {NoPath, mtxCall.cfg}
    /\ Len(mtxCall.calls) = 3
    /\ relay[mtxCall.name] = mtxCall.cfg


(***************************************************************************)
(* Properties of the digest transport                                       *)
(***************************************************************************)

\* A reply that is an HTTP 401, whatever its challenge.
Is401(reply) == ~reply.transportErr /\ reply.status = 401

\* C6: one RoundTrip sends at most two upstream requests and gets at most one
\* reply per request; when the authenticated retry is answered 401 as well,
\* the RoundTrip is over, that 401 response is what the caller receives without
\* a transport error, SendCommand reports a failure, and nothing further is
\* sent.  Holds for every sequence of camera replies.
C6_SingleRetry ==
    \A g \in Trippers :
        /\ Len(rt[g].sent) <= 2
        /\ Len(rt[g].replies) <= Len(rt[g].sent)
        /\ (Len(rt[g].replies) = 2 /\ Is401(rt[g].replies[2]))
              => /\ rt[g].pc = "done"
                 /\ Len(rt[g].sent) = 2
                 /\ rt[g].result = MkResult(TRUE, 401, "")
                 /\ rt[g].cmdErr # ""

\* A RoundTrip whose retry was answered by a second 401 carrying a fresh,
\* parsable Digest challenge, and which ended in a failed command.
C6_Witness ==
    \E g \in Trippers :
        /\ rt[g].pc = "done"
        /\ Len(rt[g].replies) = 2
        /\ Is401(rt[g].replies[2])
        /\ parseChallengeOK(rt[g].replies[2].wwwAuth)
        /\ rt[g].replies[2].wwwAuth.nonce # rt[g].replies[1].wwwAuth.nonce
        /\ rt[g].cmdErr = "unexpected status code"

\* C7: the first upstream request of every RoundTrip carries no Authorization
\* header, whatever challenge is cached; a request carries one only if it is
\* the retry, the reply to the first attempt was a 401 with a parsable Digest
\* challenge, and the header is the one computed from that very challenge.
C7_FirstUnauthenticated ==
    \A g \in Trippers :
        /\ Len(rt[g].sent) >= 1 => rt[g].sent[1].authorization = NoAuthorization
        /\ \A i \in 1..Len(rt[g].sent) :
              rt[g].sent[i].authorization.present
                 => /\ i = 2
                    /\ Is401(rt[g].replies[1])
                    /\ parseChallengeOK(rt[g].replies[1].wwwAuth)
                    /\ \E ncValue \in 1..(MaxTrips + 1), cnonce \in Cnonces :
                          rt[g].sent[2].authorization =
                              buildAuthorization(parseChallenge(rt[g].replies[1].wwwAuth, 0),
                                                 ncValue, cnonce)
        /\ Len(rt[g].sent) = 2 => rt[g].sent[2].authorization.present

\* One goroutine has sent its unauthenticated first attempt while a challenge
\* is cached, and another has sent a retry whose header uses the nonce of its
\* own 401, which is not the cached one.
C7_Witness ==
    \E g, h \in Trippers :
        /\ g # h
        /\ CameraURL \in DOMAIN challenges
        /\ rt[g].pc = "first"
        /\ rt[h].pc = "second"
        /\ rt[h].sent[2].authorization.nonce = rt[h].replies[1].wwwAuth.nonce
        /\ rt[h].sent[2].authorization.nonce # challenges[CameraURL].Nonce

(***************************************************************************)
(* Properties of process start-up                                           *)
(***************************************************************************)

\* The streams of the configuration, in configuration order.
ConfigOrder == <<"cam1/video0", "cam1/video1", "cam2/video0">>

IsPrefix(p, q) == Len(p) <= Len(q) /\ p = SubSeq(q, 1, Len(p))

Components == {"http server", "health checker", "discovery responder"}

HasStarted(c) == \E i \in 1..Len(started) : started[i] = c

RelayFatal == mainPc \in {"fatal: mediamtx not ready", "fatal: failed to configure mediamtx paths"}

\* C8, state part: the paths configured so far are a prefix of the
\* configuration order; with a relay API configured, a component is started
\* only once WaitReady succeeded and every stream is configured; a process
\* that died on a readiness or path-configuration failure has started no
\* component and served no request.
C8_Ordering ==
    /\ IsPrefix(configured, ConfigOrder)
    /\ (cfg.api /\ \E c \in Components : HasStarted(c))
          => HasStarted("relay ready") /\ configured = ConfigOrder
    /\ served > 0 => HasStarted("http server")
    /\ RelayFatal => served = 0 /\ \A c \in Components : ~HasStarted(c)

\* C8, step part: each step configures at most the next one path, only after
\* WaitReady succeeded; a failed ConfigurePath is the step that terminates the
\* process; and a terminated process takes no further step.
C8_Steps ==
    /\ (configured' # configured
          => /\ HasStarted("relay ready")
             /\ Len(configured') = Len(configured) + 1
             /\ mtxCall'.err = NoErr
             /\ mtxCall'.name = ConfigOrder[Len(configured')])
    /\ (mainPc = "configure" /\ mtxCall' # mtxCall /\ mtxCall'.err # NoErr
          => mainPc' = "fatal: failed to configure mediamtx paths")
    /\ (RelayFatal => UNCHANGED <<mainVars, mtxVars>>)

\* C8: start-up ordering.
C8_StartupOrdering == []C8_Ordering /\ [][C8_Steps]_vars

\* A process with a relay API that configured all three streams, started its
\* three components and serves.
C8_Witness ==
    /\ cfg.api
    /\ cfg.discovery
    /\ configured = ConfigOrder
    /\ started = <<"relay ready", "health checker", "discovery responder", "http server">>
    /\ served > 0

\* A process that died on the second stream, after the first was configured.
C8_WitnessFatal ==
    /\ mainPc = "fatal: failed to configure mediamtx paths"
    /\ configured = <<"cam1/video0">>
    /\ mtxCall.name = "cam1/video1"

(***************************************************************************)
(* Properties of the health checker                                         *)
(***************************************************************************)

\* Camera c has been pinged three times or more and its last three pings failed.
LastThreeFailed(c) ==
    Len(pingLog[c]) >= 3 /\ \A i \in (Len(pingLog[c]) - 2)..Len(pingLog[c]) : ~pingLog[c][i]

\* The number of consecutive failures at the end of the remembered pings.
RECURSIVE TrailingFailures(_)
TrailingFailures(log) ==
    IF log = <<>> \/ log[Len(log)] THEN 0
    ELSE 1 + TrailingFailures(SubSeq(log, 1, Len(log) - 1))

\* C10: a camera never checked is healthy; a camera is unhealthy exactly when
\* its last three pings all failed; with fewer than three consecutive failures
\* it is healthy; and after a successful ping its counter is 0 and it is
\* healthy.
C10_HealthStateMachine ==
    \A c \in CameraNames :
        /\ pingLog[c] = <<>> => health[c] /\ failures[c] = 0
        /\ ~health[c] <=> LastThreeFailed(c)
        /\ TrailingFailures(pingLog[c]) < 3 => health[c]
        /\ TrailingFailures(pingLog[c]) < 3 => failures[c] = TrailingFailures(pingLog[c])
        /\ failures[c] >= 3 <=> LastThreeFailed(c)
        /\ (pingLog[c] # <<>> /\ pingLog[c][Len(pingLog[c])])
              => failures[c] = 0 /\ health[c]

\* One camera is unhealthy after four failures in a row while the other one,
\* after three failures in a row, is healthy again with its first success.
C10_Witness ==
    /\ ~health["cam1"]
    /\ failures["cam1"] = 4
    /\ health["cam2"]
    /\ failures["cam2"] = 0
    /\ pingLog["cam2"] = <<FALSE, FALSE, FALSE, TRUE>>


(***************************************************************************)
(* Properties of the coordinate conversion                                  *)
(***************************************************************************)

Abs(n) == IF n < 0 THEN 0 - n ELSE n

\* C18: for every x and y, also outside [-1, 1], and every velocity in [0, 1],
\* ONVIFToAtomCam returns pan in [0, 355], tilt in [0, 180] and speed in
\* [1, 9]; velocity 0 gives speed 1 and velocity 1 gives speed 9.
C18_NativeRanges ==
    (cOut.done /\ cIn.velocity >= 0 /\ cIn.velocity <= Unit)
       => /\ cOut.pan >= 0 /\ cOut.pan <= 355
          /\ cOut.tilt >= 0 /\ cOut.tilt <= 180
          /\ cOut.speed >= 1 /\ cOut.speed <= 9
          /\ cIn.velocity = 0 => cOut.speed = 1
          /\ cIn.velocity = Unit => cOut.speed = 9

\* C19: for x and y in [-1, 1], AtomCamToONVIF of the pan and tilt that
\* ONVIFToAtomCam returns is within one degree of pan (1 / 177.5) of x and
\* one degree of tilt (1 / 90) of y, and inside [-1, 1].
C19_RoundTrip ==
    (cOut.done /\ InRange(cIn.x) /\ InRange(cIn.y))
       => /\ Abs(cOut.x - cIn.x) <= 2 * (Unit \div 355)
          /\ Abs(cOut.y - cIn.y) <= Unit \div 90
          /\ InRange(cOut.x)
          /\ InRange(cOut.y)

\* A conversion of a pan of half a degree, in the middle between two native
\* values, and of y = -0.005: the round trip moves both.
C19_Witness ==
    /\ cOut.done
    /\ cIn.x = Unit \div 355 - Unit
    /\ cIn.y = 0 - 5 * (Unit \div 1000)
    /\ cOut.pan = 1
    /\ cOut.tilt = 90
    /\ cOut.x # cIn.x
    /\ cOut.y = 0


(***************************************************************************)
(* Properties of the configuration and the registry                         *)
(***************************************************************************)

\* The (camera, stream) pairs of the configuration whose profile token is t.
ProfilesWithToken(t) ==
    {pr \in {[camera |-> c, stream |-> i] : c \in 1..Len(config), i \in 1..2} :
        /\ pr.stream <= Len(config[pr.camera].Streams)
        /\ config[pr.camera].Streams[pr.stream].ProfileName = t}

\* C12: in a configuration that Validate accepted, no profile token belongs
\* to two (camera, stream) pairs, and all GetProfileByToken calls with a
\* token returned the same pair.
C12_TokenUniqueness ==
    \A t \in LookupTokens :
        /\ Cardinality(ProfilesWithToken(t)) <= 1
        /\ Cardinality(lookups[t]) <= 1

(***************************************************************************)
(* The PTZ service and the camera commands                                  *)
(***************************************************************************)

\* C11: for every configuration that Config.Validate accepts and after any
\* sequence of PTZ operations, successful or not, the tracked estimate of
\* each camera has its pan in [0,355] and its tilt in [0,180].
C11_EstimateInRange ==
    \A c \in 1..Len(config) :
        /\ ptzPos[c].pan >= 0 /\ ptzPos[c].pan <= 355
        /\ ptzPos[c].tilt >= 0 /\ ptzPos[c].tilt <= 180

\* The whitelist as the documentation gives it: the verb and the space
\* after it.
Whitelisted(command) ==
    /\ Len(command) >= 2
    /\ command[1] \in {"move", "video", "property", "alarm"}
    /\ command[2] = " "

OnPTZProfile(req) ==
    \E c \in 1..Len(config) :
        /\ config[c].CapPTZ
        /\ \E i \in 1..Len(config[c].Streams) : config[c].Streams[i].ProfileName = req.token

\* A ContinuousMove whose pan/tilt velocity, zero when it has none, is
\* shorter than 0.01.
BelowThreshold(req) ==
    /\ req.op = "ContinuousMove"
    /\ OnPTZProfile(req)
    /\ \/ ~req.hasPT
       \/ /\ req.x # NaN /\ req.y # NaN
          /\ Abs(req.x) < 10 * Milli /\ Abs(req.y) < 10 * Milli
          /\ req.x * req.x + req.y * req.y < 100 * Milli * Milli

ZoomOnly(req) == req.hasZoom /\ ~req.hasPT

\* A step in which a call for which Concerned holds starts: it returns in
\* that step, having sent one Stop command and nothing else, and the
\* estimates are what they were.
StopsAtOnce(Concerned(_)) ==
    /\ \A p \in Callers :
          (call'[p] # call[p] /\ call'[p].pc # "idle") => ~Concerned(call'[p].req)
    /\ (nOps' = nOps + 1 /\ call' = call /\ Concerned(last'.req))
          => (last'.sent = <<StopCommand>> /\ ptzPos' = ptzPos)

AnyBelowThreshold(req) == BelowThreshold(req)
PanTiltBelowThreshold(req) == BelowThreshold(req) /\ ~ZoomOnly(req)

\* C14 as stated: a ContinuousMove on a PTZ-capable profile whose pan/tilt
\* velocity magnitude is below 0.01 sends exactly one Stop command and no
\* Move command, and leaves the tracked estimate unchanged.
C14_AsStated == [][StopsAtOnce(AnyBelowThreshold)]_vars

\* C14: a ContinuousMove on a PTZ-capable profile that is not a zoom-only
\* request (it carries a pan/tilt velocity, or neither a pan/tilt nor a zoom
\* velocity) and whose pan/tilt velocity magnitude is below 0.01 sends
\* exactly one Stop command and no Move command, and leaves the tracked
\* estimate unchanged.
C14_ImplicitStop == [][StopsAtOnce(PanTiltBelowThreshold)]_vars

\* A ContinuousMove with the velocity (0.005, 0.005) returned after one Stop
\* command.
C14_Witness ==
    /\ last.req.op = "ContinuousMove"
    /\ last.req.hasPT /\ last.req.x = 5 * Milli /\ last.req.y = 5 * Milli
    /\ last.camera = 1
    /\ last.sent = <<StopCommand>>

\* One tracking move run alone on a camera whose estimate is pos.
ApplyMove(cam, pos, req) ==
    Target(cam, req, IF ChecksInitialized(req) /\ Uninitialized(pos)
                     THEN FallbackPosition(cam) ELSE pos)

RECURSIVE ApplyMoves(_, _, _)
ApplyMoves(cam, pos, reqs) ==
    IF reqs = <<>> THEN pos ELSE ApplyMoves(cam, ApplyMove(cam, pos, Head(reqs)), Tail(reqs))

\* The orders of the moves that returned.
Orders(n) == {o \in [1..n -> 1..n] : \A i, j \in 1..n : i # j => o[i] # o[j]}

\* C20: when concurrent RelativeMove, ContinuousMove and FOV-mode
\* AbsoluteMove calls on one camera have all returned, the tracked estimate
\* is what running them one after another in some order gives.
C20_Serialized ==
    (/\ \A p \in Callers : call[p].pc = "idle"
     /\ Len(ptzLog) = nOps)
    => \E o \in Orders(Len(ptzLog)) :
          ptzPos[1] = ApplyMoves(config[1], NewCamera(config[1]),
                                 [i \in 1..Len(ptzLog) |-> ptzLog[o[i]]])

(***************************************************************************)
(* Properties of the snapshot proxy                                         *)
(***************************************************************************)

\* A request that reached the health check of a camera marked unhealthy was
\* answered 503 and nothing was sent to the camera.
UnhealthyRefused ==
    (snapLast.checked /\ ~snapLast.healthyAtCheck)
       => (snapLast.status = 503 /\ ~snapLast.fetched)

\* C15 as stated: a snapshot request for a camera marked unhealthy is
\* answered 503 without a request to the camera, and a request reaches the
\* camera only while the camera is marked healthy.
C15_AsStated ==
    /\ UnhealthyRefused
    /\ snapLast.fetched => snapLast.healthyAtFetch

\* C15: a snapshot request whose health check finds the camera marked
\* unhealthy is answered 503 without a request to the camera, and a request
\* is sent to the camera only by a handler whose health check found the
\* camera marked healthy.
C15_FailFast ==
    /\ UnhealthyRefused
    /\ snapLast.fetched => snapLast.healthyAtCheck
    /\ snapCall.pc = "fetch" => snapCall.healthy

\* An authenticated request for cam1, marked unhealthy, was answered 503.
C15_Witness ==
    /\ snapLast.req = MkSnapRequest("GET", "good", "cam1")
    /\ snapLast.checked /\ ~snapLast.healthyAtCheck
    /\ snapLast.status = 503
    /\ ~snapLast.fetched

(***************************************************************************)
(* Properties of the shutdown                                               *)
(***************************************************************************)

\* C16: after SIGINT or SIGTERM the process does not exit before the
\* server's Shutdown call has returned, whatever the interleaving of the
\* signal goroutine and the main goroutine.
C16_ExitAfterShutdown ==
    (procState # "running" /\ sigPc # "waiting") => sigPc \in {"stopping", "done"}

(***************************************************************************)
(* Properties of the discovery responder                                    *)
(***************************************************************************)

\* The entity that starts at position i of str, if one does.
EntityAt(str, i) ==
    {ch \in SpecialChars :
        /\ i + Len(Entity(ch)) - 1 <= Len(str)
        /\ SubSeq(str, i, i + Len(Entity(ch)) - 1) = Entity(ch)}

\* No special character of XML stands in str, except the & of an entity.
NoRawSpecial(str) ==
    \A i \in 1..Len(str) :
        /\ str[i] \notin {"<", ">", "'", "\""}
        /\ str[i] = "&" => EntityAt(str, i) # {}

\* What an XML parser reads from str.
RECURSIVE Unescape(_)
Unescape(str) ==
    IF str = <<>> THEN <<>>
    ELSE IF EntityAt(str, 1) # {}
    THEN LET ch == CHOOSE c \in EntityAt(str, 1) : TRUE
         IN  <<ch>> \o Unescape(SubSeq(str, Len(Entity(ch)) + 1, Len(str)))
    ELSE <<Head(str)>> \o Unescape(Tail(str))

\* C17: the ProbeMatch carries the MessageID of the Probe in RelatesTo, the
\* scopes and the XAddrs without a raw special character, in a form that
\* reads back as the value.
C17_Escaped ==
    probeMatch.replied =>
        /\ NoRawSpecial(probeMatch.body.RelatesTo)
        /\ NoRawSpecial(probeMatch.body.Scopes)
        /\ NoRawSpecial(probeMatch.body.XAddrs)
        /\ Unescape(probeMatch.body.RelatesTo) = probe.MessageID
        /\ Unescape(probeMatch.body.Scopes) = Join(responder.scopes)
        /\ Unescape(probeMatch.body.XAddrs) = responder.xaddrs

\* A Probe with the MessageID <& was answered with &lt;&amp; in RelatesTo.
C17_Witness ==
    /\ probeMatch.replied
    /\ probe.MessageID = <<"<", "&">>
    /\ probeMatch.body.RelatesTo = <<"&", "l", "t", ";", "&", "a", "m", "p", ";">>

(***************************************************************************)
(* Properties of the nonce records                                          *)
(***************************************************************************)

\* C22: the sweep deletes a nonce record only if it is older than 5 minutes,
\* also while validations record nonces next to it; a record younger than
\* that is never evicted.
C22_SweepSafe ==
    lastEvict.nonce # "" => lastEvict.at - lastEvict.stored > nonceTTL

\* The sweep deleted the record of one nonce after a validation had recorded
\* another one during the same sweep.
C22_Witness ==
    /\ lastEvict.nonce = "bjE="
    /\ sweep.pc = "range"
    /\ lastEvict.at >= sweep.at
    /\ "!!" \in DOMAIN usedNonces
    /\ usedNonces["!!"] >= sweep.at

\* C23: a digest token that was accepted once is not accepted a second time
\* while its Created is inside the window, whenever the sweep runs.
C23_NoReacceptance == reaccepted = {}

\* A call goes from the nonce check on to the other checks.
GoesOn(p) == vpc[p] = "idle" /\ vpc'[p] = "stored"

\* A call that went on returns.
Returns(p) == vpc[p] = "stored" /\ vpc'[p] = "idle"

\* In digest mode the nonce is recorded by the call that goes on, which has
\* the right username, a Nonce and a Created, and whose nonce was not known;
\* whatever that call returns later, the record stays; a call that returns
\* at once records nothing.
C24_Steps ==
    /\ \A p \in Validators :
          GoesOn(p) => /\ vtok'[p].username = expectedUsername
                       /\ vtok'[p].ptype = DigestType
                       /\ vtok'[p].nonce # "" /\ vtok'[p].created.present
                       /\ vtok'[p].nonce \notin DOMAIN usedNonces
                       /\ vtok'[p].nonce \in DOMAIN usedNonces'
    /\ \A p \in Validators : Returns(p) => usedNonces' = usedNonces
    /\ (nCalls' = nCalls + 1 /\ vpc' = vpc) => usedNonces' = usedNonces

\* A token with a known nonce that gets as far as the nonce check is
\* rejected as a replay; a token of another user or in plain text never gets
\* that far.
C24_Replay ==
    /\ (vlast.known /\ vlast.tok.username = expectedUsername /\ vlast.tok.ptype = DigestType
        /\ vlast.tok.nonce # "" /\ vlast.tok.created.present) => vlast.res = ReplayError
    /\ \A p \in Validators :
          vpc[p] = "stored" => (vtok[p].username = expectedUsername /\ vtok[p].ptype = DigestType)

\* C24: the nonce is consumed at the nonce check, before the timestamp and
\* the digest are verified: a validation that is rejected afterwards has
\* consumed it, a later token with that nonce is rejected as a replay, and a
\* request with a wrong username or in plain text adds nothing.
C24_ConsumedAtCheck == []C24_Replay /\ [][C24_Steps]_vars

\* The good token was rejected as a replay although no token was accepted
\* before: a rejected validation had consumed its nonce.
C24_Witness ==
    /\ GoodDigestToken(vlast.tok)
    /\ vlast.known
    /\ vlast.res = ReplayError
    /\ okTokens = {}

\* C25: a digest token whose Created is earlier than now - 5 minutes or later
\* than now + 5 minutes is rejected for that, whatever else is right, and a
\* good token whose Created is on either bound is accepted.
C25_Steps ==
    \A p \in Validators :
        (Returns(p) /\ vtok[p].created.parses) =>
            /\ (vres' = "timestamp out of valid range")
                 <=> (vtok[p].created.t < now - createdWindow
                      \/ vtok[p].created.t > now + createdWindow)
            /\ (GoodDigestToken(vtok[p])
                /\ vtok[p].created.t \in {now - createdWindow, now + createdWindow})
                 => vres' = "ok"

C25_TimestampWindow == [][C25_Steps]_vars

\* The good token with Created 0 was accepted at minute 5.
C25_Witness ==
    /\ now = createdWindow
    /\ GoodDigestToken(vlast.tok)
    /\ vlast.tok.created.t = 0
    /\ vlast.res = "ok"
    /\ "bjE=" \in DOMAIN usedNonces /\ usedNonces["bjE="] = createdWindow

(***************************************************************************)
(* The estimate and failed moves                                            *)
(***************************************************************************)

\* A PTZ operation returns in this step.
PtzReturns ==
    \/ nOps' = nOps + 1 /\ call' = call
    \/ \E p \in Callers : call[p].pc = "ready" /\ call'[p].pc = "idle"

\* C21: the estimate changes only when a move command was accepted: the
\* step in which a PTZ operation returns an error leaves the estimate as it
\* was.
C21_ErrorKeepsEstimate ==
    [][(PtzReturns /\ last'.err # "") => ptzPos' = ptzPos]_vars

(***************************************************************************)
(* Properties of the authenticated retry                                    *)
(***************************************************************************)

\* C26: the retry carries the same body bytes as the first attempt; a
\* request with a body is never retried with what the first attempt left of
\* a single-use stream.
C26_RetryBody ==
    \A g \in Trippers :
        Len(rt[g].sent) = 2 => rt[g].sent[2].body = rt[g].sent[1].body

\* The nc values of the authenticated attempts that are on their way or just
\* returned.
NcSent ==
    {rt[g].sent[2].authorization.nc :
        g \in {h \in Trippers : Len(rt[h].sent) = 2 /\ rt[h].sent[2].authorization.qop # ""}}

\* RoundTrip goes on to its authenticated attempt.
Authenticates(g) == rt[g].pc = "first" /\ rt'[g].pc = "second"

\* An attempt that answers a challenge with qop adds one to the counter and
\* sends the new value, which is above every value sent so far; one that
\* answers a challenge without qop leaves the counter alone and sends no nc;
\* nothing else touches the counter.
C27_Steps ==
    /\ \A g \in Trippers :
         Authenticates(g) =>
            LET a == rt'[g].sent[2].authorization IN
            IF rt'[g].replies[1].wwwAuth.qop # ""
            THEN /\ nc' = nc + 1
                 /\ a.qop # "" /\ a.nc = nc'
                 /\ \A n \in NcSent : n < a.nc
            ELSE /\ nc' = nc
                 /\ a.qop = "" /\ a.nc = 0 /\ a.cnonce = ""
    /\ nc' # nc => \E g \in Trippers : Authenticates(g)

\* No two attempts carry the same nc, and none is ahead of the counter.
C27_Distinct ==
    /\ \A g, h \in Trippers :
          (g # h /\ Len(rt[g].sent) = 2 /\ Len(rt[h].sent) = 2
           /\ rt[g].sent[2].authorization.qop # "" /\ rt[h].sent[2].authorization.qop # "")
            => rt[g].sent[2].authorization.nc # rt[h].sent[2].authorization.nc
    /\ \A n \in NcSent : 1 <= n /\ n <= nc

\* C27: each authenticated request that answers a challenge with qop
\* increments the transport's counter by exactly one and sends the new value,
\* so the values sent increase and no two requests, concurrent ones included,
\* send the same; without qop the counter is unchanged and no nc is sent.
C27_NonceCounter == []C27_Distinct /\ [][C27_Steps]_vars

\* Two goroutines are on their authenticated attempts at the same time, the
\* one that started later with the lower nc, after an attempt without qop.
C27_Witness ==
    /\ rt["g1"].pc = "second" /\ rt["g2"].pc = "second"
    /\ rt["g1"].sent[2].authorization.nc = 2
    /\ rt["g2"].sent[2].authorization.nc = 1
    /\ nTrips = 3

(***************************************************************************)
(* Properties of WaitReady                                                  *)
(***************************************************************************)

\* C28: when the timeout elapses without a 200, the error WaitReady returns
\* includes the last transport error observed during polling, whatever the
\* polls gave and in whatever order.
C28_TimeoutError ==
    (wr.result = "not ready" /\ wr.seen # "") => wr.wrapped = wr.seen

\* A GET is sent only for a tick of the ticker, and WaitReady has returned
\* exactly when a GET answered 200 or failed after the deadline.
C29_State ==
    /\ wr.polls <= wr.t \div PollInterval
    /\ wr.pc = "poll" => wr.began >= PollInterval
    /\ wr.pc = "done" <=> wr.result # "none"
    /\ wr.result = "not ready" => wr.t > wr.deadline

\* The GET that returns decides: 200 is success, whenever it comes; anything
\* else is the error once the deadline has passed and another round before.
C29_Steps ==
    /\ (wr.pc = "wait" /\ wr'.pc = "poll") => (wr.pending /\ wr'.polls = wr.polls + 1)
    /\ wr'.polls # wr.polls => wr.pc = "wait"
    /\ wr'.result = "ok" =>
          (wr.result = "ok" \/ (wr.pc = "poll" /\ wr'.t = wr.t))
    /\ (wr.pc = "poll" /\ wr'.pc = "wait") => wr.t <= wr.deadline
    /\ (wr.pc = "poll" /\ wr'.pc = "done" /\ wr'.result = "not ready") => wr.t > wr.deadline
    /\ (wr.pc = "poll" /\ wr'.t = wr.t /\ wr.t > wr.deadline) => wr'.pc = "done"

\* C29: WaitReady polls only on a tick of its ticker, returns success only
\* when a poll answered 200, and, every poll returning, always returns: with
\* the error at the first unsuccessful poll that completes after the deadline.
C29_Termination == []C29_State /\ [][C29_Steps]_vars /\ <>(wr.pc = "done")

\* WaitReady gave up at the first second after the deadline, after polls
\* that failed in both ways.
C29_Witness ==
    /\ wr.result = "not ready"
    /\ wr.t = wr.deadline + 1
    /\ wr.polls >= 3
    /\ wr.seen # ""
    /\ wr.wrapped = ""

(***************************************************************************)
(* ConfigurePath on failure                                                 *)
(***************************************************************************)

\* C30: whenever ConfigurePath returns an error, the relay's state for the
\* path is unchanged (the first add failed for another reason than
\* already-exists, or the delete failed) or the path is absent (the delete
\* succeeded and the second add failed); it never holds a configuration that
\* differs from both the previous one and cfg; the other paths are untouched.
C30_OnFailure ==
    (mtxCall.name # "" /\ mtxCall.err # NoErr) =>
        /\ IF Len(mtxCall.calls) = 3
           THEN /\ deletePath(mtxCall.calls[2].reply) = NoErr
                /\ addPath(mtxCall.calls[3].reply) # NoErr
                /\ relay[mtxCall.name] = NoPath
           ELSE /\ \/ ~isPathExistsError(addPath(mtxCall.calls[1].reply))
                   \/ (Len(mtxCall.calls) = 2 /\ deletePath(mtxCall.calls[2].reply) # NoErr)
                /\ relay[mtxCall.name] = mtxCall.before[mtxCall.name]
        /\ relay[mtxCall.name] \in {mtxCall.before[mtxCall.name], mtxCall.cfg, NoPath}
        /\ \A n \in PathNames \ {mtxCall.name} : relay[n] = mtxCall.before[n]

\* The relay held another configuration of the path, the delete succeeded,
\* the second add failed: the call returned an error and the path is gone.
C30_Witness ==
    /\ mtxCall.name = "cam1/video0"
    /\ mtxCall.err # NoErr
    /\ mtxCall.err.wrap = "failed to recreate path"
    /\ mtxCall.before["cam1/video0"] = "source: rtsp"
    /\ mtxCall.cfg = "runOnDemand: ffmpeg"
    /\ relay["cam1/video0"] = NoPath

(***************************************************************************)
(* The home position                                                        *)
(***************************************************************************)

\* C36: GotoHomePosition records (and commands) the position a freshly
\* created camera's estimate starts with: the configured home position, or
\* the midpoint (177, 90) when none is configured.
C36_HomeAgrees ==
    [][(PtzReturns /\ last'.req.op = "GotoHomePosition" /\ OnPTZProfile(last'.req))
         => ptzPos'[last'.camera] = NewCamera(config[last'.camera])]_vars

(***************************************************************************)
(* Continuous moves of no length                                            *)
(***************************************************************************)

\* The estimate cur is at the end of the range on every axis on which the
\* velocity of req is not zero, on the side the velocity points to.
AtBoundary(req, cur) ==
    /\ req.x > 0 => cur.pan = 355
    /\ req.x < 0 => cur.pan = 0
    /\ req.y > 0 => cur.tilt = 180
    /\ req.y < 0 => cur.tilt = 0

\* C37: a ContinuousMove whose velocity is at least 0.01 long never moves to
\* the estimate it read, unless that estimate is at the boundary in the
\* direction of the velocity; the estimate it stores differs from the one it
\* read and lies in the direction of the velocity.
C37_NoZeroLengthMove ==
    [][\A p \in Callers :
         (/\ call[p].pc = "ready" /\ call'[p].pc = "idle"
          /\ call[p].req.op = "ContinuousMove"
          /\ call[p].req.x # NaN /\ call[p].req.y # NaN
          /\ ~AtBoundary(call[p].req, call[p].cur))
         => /\ ptzPos'[call[p].camera] # call[p].cur
            /\ call[p].req.x >= 0 => ptzPos'[call[p].camera].pan >= call[p].cur.pan
            /\ call[p].req.y >= 0 => ptzPos'[call[p].camera].tilt >= call[p].cur.tilt]_vars

(***************************************************************************)
(* PTZ requests that are refused                                            *)
(***************************************************************************)

\* The step in which a call starts and returns at once.
ReturnsAtOnce == nOps' = nOps + 1 /\ call' = call

\* C38: every PTZ operation addressed to an unknown profile token or to a
\* camera without the ptz capability returns an error, sends no command and
\* leaves every camera's estimate as it was.
C38_RefusedNoEffect ==
    [][/\ (ReturnsAtOnce /\ last'.req.op \in PtzOperations /\ ~OnPTZProfile(last'.req))
            => (last'.err # "" /\ last'.sent = <<>> /\ ptzPos' = ptzPos /\ ptzLog' = ptzLog)
       /\ \A p \in Callers :
            (nOps' = nOps + 1 /\ call'[p] # call[p]) => OnPTZProfile(call'[p].req)]_vars

\* After a preset moved the estimate of the first camera, a GotoPreset on
\* the profile of the camera without PTZ was refused.
C38_Witness ==
    /\ nOps = 2
    /\ last.req.op = "GotoPreset" /\ last.req.token = "sub"
    /\ last.err = "camera does not support PTZ"
    /\ last.sent = <<>>
    /\ ptzPos[1] # NewCamera(config[1])
    /\ ptzPos[2] = NewCamera(config[2])

(***************************************************************************)
(* The camera of an imaging request                                         *)
(***************************************************************************)

\* C39: the settings go to the camera the request's VideoSourceToken
\* designates; with several cameras, requests with the same token always
\* send their commands to the same camera.
C39_SameCamera ==
    \A token \in VideoSourceTokens : Cardinality(imgServed[token]) <= 1

(***************************************************************************)
(* What the responder answers                                               *)
(***************************************************************************)

\* C35: a datagram whose Action is a Probe gets one ProbeMatch, and a
\* datagram whose Action is anything else (the ProbeMatches of another
\* device, Hello, Bye, Resolve) gets no response.
C35_OnlyProbes ==
    probeMatch.replied <=> (probe.valid /\ probe.action.name = ProbeName)

(***************************************************************************)
(* Properties of the discovery read loop and of the background loops        *)
(***************************************************************************)

\* C34: the bytes a probe handler parses are the bytes of the datagram that
\* started it (as many as the buffer took), whatever was received after it.
C34_BufferIsolation ==
    \A h \in 1..Len(handlers) :
        handlers[h].pc = "done" =>
            handlers[h].parsed
              = SubSeq(handlers[h].datagram, 1, Min(Len(handlers[h].datagram), BufLen))

\* The first handler parsed its datagram after two more were received over
\* it in the buffer.
C34_Witness ==
    /\ Len(handlers) = 3
    /\ handlers[1].pc = "done"
    /\ handlers[1].at = 3
    /\ handlers[1].parsed = <<"a", "b">>
    /\ buffer # <<"a", "b">>

\* C33 as stated: once the stop operation has been invoked the loop
\* terminates and starts no further sweep, health check or probe handler;
\* further stops do nothing and do not fail.
C33_AsStated ==
    /\ [](~task.late /\ ~task.panicked)
    /\ [][task.stops > 0 => task'.stopped]_vars
    /\ (task.stopped ~> task.pc = "exited")

\* C33: once the stop operation has been invoked the loop terminates, and
\* once terminated it stays so; a sweep, health check or probe handler whose
\* tick or datagram is there when the loop looks may still start before;
\* further stops do nothing and do not fail.
C33_LoopsStop ==
    /\ [](~task.panicked /\ (task.stops > 0 => task.stopped))
    /\ [][/\ task.pc = "exited" => task'.pc = "exited"
          /\ task.stopped => task'.stopped
          /\ (task.stopped /\ task'.stops # task.stops)
               => task' = [task EXCEPT !.stops = task'.stops]]_vars
    /\ (task.stopped ~> task.pc = "exited")

\* The health checker was stopped twice, began one more check after the
\* first stop, and has returned.
C33_Witness ==
    /\ task.name = "health checker"
    /\ task.stops = 2
    /\ task.late
    /\ task.pc = "exited"
    /\ ~task.panicked

(***************************************************************************)
(* Properties of the root fallback                                          *)
(***************************************************************************)

Services == Endpoints \ {"root"}

C32_UnknownAfterAuth ==
    gwResp = NewActionFailedFault(<<"Unknown action: ", gwReq.action>>)
        => (gwTrace.authRun /\ gwTrace.authErr = "")

====
